---- MODULE Spec2Model ----
(***************************************************************************)
(* Model of the resilient structured-output recovery parser                *)
(* (back/backend/model/parser_llm.py).                                     *)
(*                                                                         *)
(* A text is a sequence of characters; a character is a one-character      *)
(* string, except for the few characters TLA+ cannot write in a string     *)
(* literal, which are named: "NUL" (\x00), "VT" (\x0b) and "SUP2" (the     *)
(* superscript two, U+00B2, a character for which str.isdigit() is true    *)
(* and int() fails).                                                       *)
(***************************************************************************)
EXTENDS Integers, Sequences, FiniteSets, TLC

\* ------------------------------------------------------------------ characters

Q == "\""
BS == "\\"
NL == "\n"
SP == " "

Digits == {"0", "1", "2", "3", "4", "5", "6", "7", "8", "9"}

LowerSeq == <<"a", "b", "c", "d", "e", "f", "g", "h", "i", "j", "k", "l", "m",
              "n", "o", "p", "q", "r", "s", "t", "u", "v", "w", "x", "y", "z">>
UpperSeq == <<"A", "B", "C", "D", "E", "F", "G", "H", "I", "J", "K", "L", "M",
              "N", "O", "P", "Q", "R", "S", "T", "U", "V", "W", "X", "Y", "Z">>

LowerLetters == {LowerSeq[i] : i \in 1..26}
UpperLetters == {UpperSeq[i] : i \in 1..26}
Letters == LowerLetters \cup UpperLetters

\* str.lower() of one character (re.I matching)
Lower(c) ==
  IF c \in UpperLetters
    THEN LowerSeq[CHOOSE i \in 1..26 : UpperSeq[i] = c]
    ELSE c

\* \s of the re module and str.isspace()
Spaces == {" ", "\t", "\n", "\r", "\f", "VT"}
IsSpace(c) == c \in Spaces

\* \w of the re module (str patterns are Unicode patterns: U+00B2 is alphanumeric)
IsWord(c) == c \in Letters \cup Digits \cup {"_", "SUP2"}

\* \d of the re module (decimal digits only)
IsDigit(c) == c \in Digits

\* str.isdigit() of one character: also true of U+00B2
IsDigitPy(c) == c \in Digits \cup {"SUP2"}

DigitVal(c) == CHOOSE d \in 0..9 : <<"0", "1", "2", "3", "4", "5", "6", "7", "8", "9">>[d + 1] = c

DigitChar(d) == <<"0", "1", "2", "3", "4", "5", "6", "7", "8", "9">>[d + 1]

\* ------------------------------------------------------------------ text helpers

Max(a, b) == IF a >= b THEN a ELSE b
Min(a, b) == IF a <= b THEN a ELSE b

\* the least element of a non-empty set of integers
MinOf(S) == CHOOSE x \in S : \A y \in S : x <= y

\* the element of a one-element set.  The({f(y) : y \in {e}}) is f(e), with e
\* evaluated before f is applied to it.
The(S) == CHOOSE x \in S : TRUE

\* s[i:] and s[i:j] of Python on the 1-based positions of TLA+: From(s, i) is the
\* text from position i on, Slice(s, i, j) the text of positions i..j
From(s, i) == SubSeq(s, i, Len(s))
Slice(s, i, j) == SubSeq(s, i, j)

\* s.startswith(w, i - 1)
StartsAt(s, i, w) ==
  /\ i >= 1
  /\ i + Len(w) - 1 <= Len(s)
  /\ \A k \in 1..Len(w) : s[i + k - 1] = w[k]

\* the same, ignoring case (re.I); w is lower case
StartsAtI(s, i, w) ==
  /\ i >= 1
  /\ i + Len(w) - 1 <= Len(s)
  /\ \A k \in 1..Len(w) : Lower(s[i + k - 1]) = w[k]

\* the first position j >= i where w starts, 0 when there is none
NextWord(s, i, w) ==
  LET at == {j \in Max(i, 1)..Len(s) : StartsAt(s, j, w)}
  IN IF at = {} THEN 0 ELSE MinOf(at)

\* the first position j >= i with s[j] = c, 0 when there is none
NextChar(s, i, c) == NextWord(s, i, <<c>>)

\* w in s, and s.find(w) + 1 (0 when absent)
Contains(s, w) == NextWord(s, 1, w) > 0
Find(s, w) == NextWord(s, 1, w)

\* the first position j >= i that holds no character of the class C
\* (Len(s) + 1 at the end of the text): the end of a greedy C*
SkipClass(s, i, C) == MinOf({j \in i..(Len(s) + 1) : j > Len(s) \/ s[j] \notin C})

\* \s*
SkipWs(s, i) == SkipClass(s, i, Spaces)

\* \b between position i - 1 and position i of s
WordBoundary(s, i) ==
  LET before == i - 1 >= 1 /\ i - 1 <= Len(s) /\ IsWord(s[i - 1])
      after == i >= 1 /\ i <= Len(s) /\ IsWord(s[i])
  IN before # after

\* "".join(ts[lo..hi]) of a sequence of texts
RECURSIVE ConcatRange(_, _, _)
ConcatRange(ts, lo, hi) ==
  IF lo > hi THEN <<>>
  ELSE IF lo = hi THEN ts[lo]
  ELSE ConcatRange(ts, lo, (lo + hi) \div 2) \o ConcatRange(ts, (lo + hi) \div 2 + 1, hi)

Concat(ts) == ConcatRange(ts, 1, Len(ts))

\* sep.join(ts)
Join(ts, sep) == Concat([i \in 1..(2 * Len(ts) - 1) |-> IF i % 2 = 1 THEN ts[(i + 1) \div 2] ELSE sep])

\* Call(f, x) is the call of the function named f with the argument x (with
\* x[1], x[2] when it takes two); the functions call one another through it.
\* It is defined below, after the functions.
RECURSIVE Call(_, _)
RECURSIVE CallRewrite(_, _)

\* ------------------------------------------------------------------ words of the source

W_null == <<"n", "u", "l", "l">>
W_string == <<"s", "t", "r", "i", "n", "g">>
W_scID == <<"s", "c", "I", "D">>
W_id == <<"i", "d">>
W_det == <<"d", "e", "t">>
W_vlc == <<"v", "l", "c">>
W_snt == <<"s", "n", "t">>
W_nn == <<"n", "n">>
W_ans == <<"a", "n", "s">>
W_rsn == <<"r", "s", "n">>
W_adv == <<"a", "d", "v">>
W_explanation == <<"e", "x", "p", "l", "a", "n", "a", "t", "i", "o", "n">>
W_new_text == <<"n", "e", "w", "_", "t", "e", "x", "t">>
W_non_neutral == <<"n", "o", "n", "_", "n", "e", "u", "t", "r", "a", "l">>
W_scene_indices == <<"s", "c", "e", "n", "e", "_", "i", "n", "d", "i", "c", "e", "s">>
W_scene_results == <<"s", "c", "e", "n", "e", "_", "r", "e", "s", "u", "l", "t", "s">>
W_final_rating == <<"f", "i", "n", "a", "l", "_", "r", "a", "t", "i", "n", "g">>
W_final == <<"f", "i", "n", "a", "l">>
W_STRING == <<"S", "T", "R", "I", "N", "G">>
W_ratings == <<"0", "+", "|", "6", "+", "|", "1", "2", "+", "|", "1", "6", "+", "|", "1", "8", "+">>
W_true == <<"t", "r", "u", "e">>
W_false == <<"f", "a", "l", "s", "e">>
W_NaN == <<"N", "a", "N">>
W_Infinity == <<"I", "n", "f", "i", "n", "i", "t", "y">>

\* a key as it is written in a text: "key"
Quoted(w) == <<Q>> \o w \o <<Q>>

\* the alternatives of _TYPE_RE
TypeWords ==
  { <<"i", "n", "t">>, <<"i", "n", "t", "e", "g", "e", "r">>, W_string,
    <<"s", "t", "r">>, <<"f", "l", "o", "a", "t">>, <<"n", "u", "m", "b", "e", "r">>,
    <<"b", "o", "o", "l", "e", "a", "n">>, <<"b", "o", "o", "l">> }

\* ------------------------------------------------------------------ regular-expression substitution

\* the {0,200} of _WRAPPER_RE
WrapperMaxInner == 200

\* Every pattern of the source is given by its match at one position i: the
\* position after the match, 0 when the pattern does not match at i.

\* _WRAPPER_RE  <\|[^|]{0,200}\|>
WrapperEnd(s, i) ==
  IF ~StartsAt(s, i, <<"<", "|">>) THEN 0
  ELSE LET j == NextChar(s, i + 2, "|")
       IN IF j = 0 \/ j - (i + 2) > WrapperMaxInner THEN 0
          ELSE IF j + 1 <= Len(s) /\ s[j + 1] = ">" THEN j + 2
          ELSE 0

\* //.*?$ with re.M: from // up to the end of the line
LineCommentEnd(s, i) ==
  IF ~StartsAt(s, i, <<"/", "/">>) THEN 0
  ELSE LET j == NextChar(s, i + 2, NL)
       IN IF j = 0 THEN Len(s) + 1 ELSE j

\* /\*.*?\*/ with re.S
BlockCommentEnd(s, i) ==
  IF ~StartsAt(s, i, <<"/", "*">>) THEN 0
  ELSE LET j == NextWord(s, i + 2, <<"*", "/">>)
       IN IF j = 0 THEN 0 ELSE j + 2

\* _TYPE_RE  :\s*(int|integer|string|str|float|number|boolean|bool)\b with re.I
TypeEnd(s, i) ==
  IF i > Len(s) \/ s[i] # ":" THEN 0
  ELSE LET k == SkipWs(s, i + 1)
           ws == {w \in TypeWords : StartsAtI(s, k, w) /\ WordBoundary(s, k + Len(w))}
       IN IF ws = {} THEN 0 ELSE k + Len(CHOOSE w \in ws : TRUE)

\* ,\s*"scID"\s*:
StraySegEnd(s, i) ==
  IF i > Len(s) \/ s[i] # "," THEN 0
  ELSE LET k == SkipWs(s, i + 1)
           c == IF StartsAt(s, k, Quoted(W_scID)) THEN SkipWs(s, k + 6) ELSE 0
       IN IF c > 0 /\ c <= Len(s) /\ s[c] = ":" THEN c + 1 ELSE 0

\* a\s*b for two characters a and b:  }\s*{   ]\s*{   ,\s*,
PairEnd(s, i, a, b) ==
  IF i > Len(s) \/ s[i] # a THEN 0
  ELSE LET k == SkipWs(s, i + 1)
       IN IF k <= Len(s) /\ s[k] = b THEN k + 1 ELSE 0

\* (?<=\bnull)\s*{
AfterNullEnd(s, i) ==
  IF ~(StartsAt(s, i - 4, W_null) /\ WordBoundary(s, i - 4)) THEN 0
  ELSE LET k == SkipWs(s, i)
       IN IF k <= Len(s) /\ s[k] = "{" THEN k + 1 ELSE 0

\* }\s*(?=null\b)
BeforeNullEnd(s, i) ==
  IF i > Len(s) \/ s[i] # "}" THEN 0
  ELSE LET k == SkipWs(s, i + 1)
       IN IF StartsAt(s, k, W_null) /\ WordBoundary(s, k + 4) THEN k ELSE 0

\* \{"\}
BraceQuoteEnd(s, i) == IF StartsAt(s, i, <<"{", Q, "}">>) THEN i + 3 ELSE 0

\* "explanation"\s*:\s*string\b with re.I
ExplanationStringEnd(s, i) ==
  IF ~StartsAtI(s, i, Quoted(W_explanation)) THEN 0
  ELSE LET c == SkipWs(s, i + 13)
           k == IF c <= Len(s) /\ s[c] = ":" THEN SkipWs(s, c + 1) ELSE 0
       IN IF k > 0 /\ StartsAtI(s, k, W_string) /\ WordBoundary(s, k + 6) THEN k + 6 ELSE 0

\* (":)\s*string\b
ColonStringEnd(s, i) ==
  IF ~StartsAt(s, i, <<Q, ":">>) THEN 0
  ELSE LET k == SkipWs(s, i + 2)
       IN IF StartsAt(s, k, W_string) /\ WordBoundary(s, k + 6) THEN k + 6 ELSE 0

\* the patterns and the text each replaces its match with
MatchEnd(re, s, i) ==
  CASE re = "wrapper" -> WrapperEnd(s, i)
    [] re = "line_comment" -> LineCommentEnd(s, i)
    [] re = "block_comment" -> BlockCommentEnd(s, i)
    [] re = "type" -> TypeEnd(s, i)
    [] re = "stray_segment" -> StraySegEnd(s, i)
    [] re = "brace_brace" -> PairEnd(s, i, "}", "{")
    [] re = "bracket_brace" -> PairEnd(s, i, "]", "{")
    [] re = "after_null" -> AfterNullEnd(s, i)
    [] re = "before_null" -> BeforeNullEnd(s, i)
    [] re = "comma_comma" -> PairEnd(s, i, ",", ",")
    [] re = "brace_quote" -> BraceQuoteEnd(s, i)
    [] re = "explanation_string" -> ExplanationStringEnd(s, i)
    [] re = "colon_string" -> ColonStringEnd(s, i)

Replacement(re) ==
  CASE re \in {"wrapper", "line_comment", "block_comment"} -> <<>>
    [] re = "type" -> <<":", " ">> \o W_null
    [] re = "stray_segment" -> <<",", "{">> \o Quoted(W_scID) \o <<":">>
    [] re = "brace_brace" -> <<"}", ",", "{">>
    [] re = "bracket_brace" -> <<"]", ",", "{">>
    [] re = "after_null" -> <<",", "{">>
    [] re = "before_null" -> <<"}", ",">>
    [] re = "comma_comma" -> <<",">>
    [] re = "brace_quote" -> <<"}">>
    [] re = "explanation_string" -> Quoted(W_explanation) \o <<":", " ", Q, Q>>
    [] re = "colon_string" -> <<Q, ":", " ", Q, Q>>

\* the first position j >= i where the pattern matches, 0 when there is none
NextMatch(re, s, i) ==
  LET at == {j \in i..Len(s) : MatchEnd(re, s, j) > 0}
  IN IF at = {} THEN 0 ELSE MinOf(at)

\* re.sub(pattern, replacement, s): the non-overlapping matches from left to
\* right, each replaced
RECURSIVE SubFrom(_, _, _)

\* the text from position i on, with the match found at j (0 for none) and
\* every later match replaced
SubAt(re, s, i, j) ==
  IF j = 0 THEN From(s, i)
  ELSE Slice(s, i, j - 1) \o Replacement(re) \o SubFrom(re, s, MatchEnd(re, s, j))

SubFrom(re, s, i) == SubAt(re, s, i, NextMatch(re, s, i))

Sub(re, s) == SubFrom(re, s, 1)

\* re.sub of the pattern named re, as the functions below call it
ReSub(re, s) == Call("re.sub", <<re, s>>)

\* ------------------------------------------------------------------ Text Normalizer

_strip_wrappers(s) == ReSub("wrapper", s)

\* s.replace("\x00","").replace("\x0b","")
StripControls(s) == SelectSeq(s, LAMBDA c : c \notin {"NUL", "VT"})

_base_clean(s) ==
  StripControls(ReSub("block_comment", ReSub("line_comment", Call("_strip_wrappers", s))))

\* ------------------------------------------------------------------ Repair Engine: substitutions

_replace_type_placeholders(s) == ReSub("type", s)

\* re.sub(r'^\s*"scID"\s*:', '{"scID":', s)
StraySegStart(s) ==
  LET k == SkipWs(s, 1)
      c == IF StartsAt(s, k, Quoted(W_scID)) THEN SkipWs(s, k + 6) ELSE 0
  IN IF c > 0 /\ c <= Len(s) /\ s[c] = ":"
       THEN <<"{">> \o Quoted(W_scID) \o <<":">> \o From(s, c + 1)
       ELSE s

_normalize_stage2_stray_segments(s) == StraySegStart(ReSub("stray_segment", s))

_fix_comma_issues(s) ==
  ReSub("comma_comma", ReSub("before_null", ReSub("after_null",
    ReSub("bracket_brace", ReSub("brace_brace", s)))))

_remove_strays(s) ==
  ReSub("colon_string", ReSub("explanation_string", ReSub("brace_quote", s)))

\* ------------------------------------------------------------------ Repair Engine: scanners

\* the position c, when it holds a colon, else 0
ColonAt(s, c) == IF c > 0 /\ c <= Len(s) /\ s[c] = ":" THEN c ELSE 0

\* "key"\s*:  matched at position i: the position after the colon, 0 for no match
KeyColon(s, i, key) ==
  IF StartsAt(s, i, Quoted(key))
    THEN IF ColonAt(s, SkipWs(s, i + Len(key) + 2)) > 0
           THEN SkipWs(s, i + Len(key) + 2) + 1 ELSE 0
    ELSE 0

\* "key"\s*:\s*  matched at position i: the position after it, 0 for no match
KeyColonWs(s, i, key) ==
  IF KeyColon(s, i, key) > 0 THEN SkipWs(s, KeyColon(s, i, key)) ELSE 0

\* the number of backslashes that stand immediately before position j, not
\* counting positions before lo
BsRun(s, j, lo) ==
  LET stops == {k \in (lo - 1)..(j - 1) : k = lo - 1 \/ s[k] # BS}
  IN j - 1 - (CHOOSE k \in stops : \A m \in stops : m <= k)

\* the first quote at or after position v that no backslash escapes, 0 when
\* there is none: the end of [^"\\]*(?:\\.[^"\\]*)* followed by "
ClosingQuote(s, v) ==
  LET at == {j \in v..Len(s) : s[j] = Q /\ BsRun(s, j, v) % 2 = 0}
  IN IF at = {} THEN 0 ELSE MinOf(at)

\* the value part of  "field"\s*:\s*"([^"\\]*(?:\\.[^"\\]*)*)"  from position v
\* on: the position of the closing quote, 0 when the pattern cannot match
\* (no closing quote, or a backslash before a line feed, which \\. refuses)
FieldValueEnd(s, v) ==
  LET e == ClosingQuote(s, v)
  IN IF e = 0 THEN 0
     ELSE IF \E p \in v..(e - 1) :
               s[p] = BS /\ BsRun(s, p, v) % 2 = 0 /\ s[p + 1] = NL
       THEN 0
     ELSE e

\* pat matched at position i: [ok, vs, ve], the value is s[vs..ve - 1] and the
\* match ends at the closing quote, position ve
FieldValueAt(s, k) ==
  IF k > 0 /\ k <= Len(s) /\ s[k] = Q
    THEN [ok |-> FieldValueEnd(s, k + 1) > 0, vs |-> k + 1, ve |-> FieldValueEnd(s, k + 1)]
    ELSE [ok |-> FALSE, vs |-> 0, ve |-> 0]

FieldMatch(s, i, field) == FieldValueAt(s, KeyColonWs(s, i, field))

\* the loop over the characters of the value (lines 66-72)
RepairValue(value) ==
  Concat([i \in 1..Len(value) |->
            IF value[i] = Q /\ (i = 1 \/ value[i - 1] # BS)
              THEN <<BS, Q>> ELSE <<value[i]>>])

\* the while loop of _sanitize_field_quotes from position i on
RECURSIVE SanitizeFrom(_, _, _)

\* one turn of the loop: m is the match found at position j
SanitizeAt(s, i, field, j, m) ==
  Slice(s, i, j - 1) \o Quoted(field) \o <<":", Q>>
    \o RepairValue(Slice(s, m.vs, m.ve - 1)) \o <<Q>>
    \o SanitizeFrom(s, m.ve + 1, field)

\* the first position j >= i where pat matches, 0 when there is none
NextField(s, i, field) ==
  LET at == {j \in i..Len(s) : FieldMatch(s, j, field).ok}
  IN IF at = {} THEN 0 ELSE MinOf(at)

SanitizeNext(s, i, field, j) ==
  IF j = 0 THEN From(s, i) ELSE SanitizeAt(s, i, field, j, FieldMatch(s, j, field))

SanitizeFrom(s, i, field) == SanitizeNext(s, i, field, NextField(s, i, field))

_sanitize_field_quotes(src, field) == SanitizeFrom(src, 1, field)

_sanitize_text_fields(s) ==
  Call("_sanitize_field_quotes",
       <<Call("_sanitize_field_quotes",
              <<Call("_sanitize_field_quotes",
                     <<Call("_sanitize_field_quotes", <<s, W_rsn>>), W_adv>>),
                W_explanation>>),
         W_new_text>>)

Closer(c) == IF c = "{" THEN "}" ELSE "]"

Reverse(q) == [i \in 1..Len(q) |-> q[Len(q) + 1 - i]]

Pop(stack) == SubSeq(stack, 1, Len(stack) - 1)

\* one turn of the for loop of _autoclose on the character ch; st holds the
\* stack of expected closers (top last), in_str and esc
AutocloseStep(st, ch) ==
  CASE st.in_str /\ st.esc -> [st EXCEPT !.esc = FALSE]
    [] st.in_str /\ ~st.esc /\ ch = BS -> [st EXCEPT !.esc = TRUE]
    [] st.in_str /\ ~st.esc /\ ch = Q -> [st EXCEPT !.in_str = FALSE]
    [] st.in_str /\ ~st.esc /\ ch \notin {BS, Q} -> st
    [] ~st.in_str /\ ch = Q -> [st EXCEPT !.in_str = TRUE]
    [] ~st.in_str /\ ch \in {"{", "["} -> [st EXCEPT !.stack = Append(@, Closer(ch))]
    [] ~st.in_str /\ ch \in {"}", "]"} ->
         IF st.stack # <<>> /\ st.stack[Len(st.stack)] = ch
           THEN [st EXCEPT !.stack = Pop(@)] ELSE st
    [] OTHER -> st

\* the for loop of _autoclose over the positions lo..hi of s
RECURSIVE AutocloseScan(_, _, _, _)
AutocloseScan(s, st, lo, hi) ==
  IF lo > hi THEN st
  ELSE IF lo = hi THEN AutocloseStep(st, s[lo])
  ELSE The({AutocloseScan(s, m, (lo + hi) \div 2 + 1, hi) :
             m \in {AutocloseScan(s, st, lo, (lo + hi) \div 2)}})

_autoclose(s) ==
  s \o Reverse(AutocloseScan(s, [stack |-> <<>>, in_str |-> FALSE, esc |-> FALSE],
                             1, Len(s)).stack)

\* one turn of the for loop that passes over a closer that does not match, as
\* the loop of _autoclose does
BalancedStepLenient(st, ch, j) ==
  IF st.hi = 0 /\ ~st.in_str /\ ch \in {"}", "]"}
       /\ ~(st.stack # <<>> /\ st.stack[Len(st.stack)] = ch)
    THEN st
  ELSE IF st.hi = 0 /\ ~st.in_str /\ ch \in {"}", "]"} /\ Len(st.stack) = 1
    THEN [st EXCEPT !.stack = <<>>, !.hi = j]
  ELSE IF st.hi = 0 THEN AutocloseStep(st, ch)
  ELSE st

\* one turn of the for loop of _balanced_slice at position j; st.hi is the
\* position of the last character of the slice once the loop has returned
BalancedStep(st, ch, j) ==
  CASE st.hi > 0 -> st
    [] st.hi = 0 /\ st.in_str /\ st.esc -> [st EXCEPT !.esc = FALSE]
    [] st.hi = 0 /\ st.in_str /\ ~st.esc /\ ch = BS -> [st EXCEPT !.esc = TRUE]
    [] st.hi = 0 /\ st.in_str /\ ~st.esc /\ ch = Q -> [st EXCEPT !.in_str = FALSE]
    [] st.hi = 0 /\ st.in_str /\ ~st.esc /\ ch \notin {BS, Q} -> st
    [] st.hi = 0 /\ ~st.in_str /\ ch = Q -> [st EXCEPT !.in_str = TRUE]
    [] st.hi = 0 /\ ~st.in_str /\ ch \in {"{", "["} ->
         [st EXCEPT !.stack = Append(@, Closer(ch))]
    [] st.hi = 0 /\ ~st.in_str /\ ch \in {"}", "]"} ->
         IF st.stack # <<>> /\ st.stack[Len(st.stack)] = ch
           THEN IF Len(st.stack) = 1
                  THEN [st EXCEPT !.stack = <<>>, !.hi = j]
                  ELSE [st EXCEPT !.stack = Pop(@)]
           ELSE [st EXCEPT !.hi = j]
    [] OTHER -> st

RECURSIVE BalancedScan(_, _, _, _)
BalancedScan(text, st, lo, hi) ==
  IF lo > hi THEN st
  ELSE IF lo = hi THEN BalancedStep(st, text[lo], lo)
  ELSE The({BalancedScan(text, m, (lo + hi) \div 2 + 1, hi) :
             m \in {BalancedScan(text, st, lo, (lo + hi) \div 2)}})

\* the first position >= i holding '{' or '[', 0 when there is none
NextOpener(s, i) ==
  LET at == {j \in Max(i, 1)..Len(s) : s[j] \in {"{", "["}}
  IN IF at = {} THEN 0 ELSE MinOf(at)

\* _balanced_slice(text, start - 1): [ok, lo, hi], the slice is text[lo..hi];
\* ok is false for None
BalancedFrom(text, i, st) ==
  IF i = 0 THEN [ok |-> FALSE, lo |-> 0, hi |-> 0]
  ELSE IF st.hi > 0 THEN [ok |-> TRUE, lo |-> i, hi |-> st.hi]
  ELSE IF st.stack # <<>> THEN [ok |-> TRUE, lo |-> i, hi |-> Len(text)]
  ELSE [ok |-> FALSE, lo |-> 0, hi |-> 0]

_balanced_slice(text, start) ==
  BalancedFrom(text, NextOpener(text, start),
               BalancedScan(text, [stack |-> <<>>, in_str |-> FALSE, esc |-> FALSE, hi |-> 0],
                            NextOpener(text, start), Len(text)))

\* the regions of _find_regions as [lo, hi] pairs of positions of s
RECURSIVE FindRegionsFrom(_, _)

\* one turn of the while loop that resumes the scan inside the region found
FindRegionsInside(s, i, cand) ==
  IF cand.ok /\ cand.hi >= cand.lo
    THEN <<[lo |-> cand.lo, hi |-> cand.hi]>> \o FindRegionsFrom(s, i + 1)
    ELSE FindRegionsFrom(s, i + 1)

\* one turn of the while loop: the opener found at i and its slice cand
FindRegionsAt(s, i, cand) ==
  IF cand.ok /\ cand.hi >= cand.lo
    THEN <<[lo |-> cand.lo, hi |-> cand.hi]>> \o FindRegionsFrom(s, cand.hi + 1)
    ELSE FindRegionsFrom(s, i + 1)

FindRegionsNext(s, idx, i) ==
  IF idx > Len(s) \/ i = 0 THEN <<>>
  ELSE FindRegionsAt(s, i, Call("_balanced_slice", <<s, i>>))

FindRegionsFrom(s, idx) == FindRegionsNext(s, idx, NextOpener(s, idx))

RegionSpans(s) == FindRegionsFrom(s, 1)

SliceSpans(s, spans) == [r \in 1..Len(spans) |-> Slice(s, spans[r].lo, spans[r].hi)]

_find_regions(s) == SliceSpans(s, RegionSpans(s))

\* one turn of the inner loop of _coalesce_key_arrays at position j; st.at is
\* the position of the ']' that closes the array once it is found
ArrayCloseStep(st, ch, j) ==
  CASE st.at > 0 -> st
    [] st.at = 0 /\ st.in_str /\ st.esc -> [st EXCEPT !.esc = FALSE]
    [] st.at = 0 /\ st.in_str /\ ~st.esc /\ ch = BS -> [st EXCEPT !.esc = TRUE]
    [] st.at = 0 /\ st.in_str /\ ~st.esc /\ ch = Q -> [st EXCEPT !.in_str = FALSE]
    [] st.at = 0 /\ st.in_str /\ ~st.esc /\ ch \notin {BS, Q} -> st
    [] st.at = 0 /\ ~st.in_str /\ ch = Q -> [st EXCEPT !.in_str = TRUE]
    [] st.at = 0 /\ ~st.in_str /\ ch = "[" -> [st EXCEPT !.depth = @ + 1]
    [] st.at = 0 /\ ~st.in_str /\ ch = "]" ->
         IF st.depth - 1 = 0 THEN [st EXCEPT !.depth = 0, !.at = j]
         ELSE [st EXCEPT !.depth = @ - 1]
    [] OTHER -> st

RECURSIVE ArrayCloseScan(_, _, _, _)
ArrayCloseScan(s, st, lo, hi) ==
  IF lo > hi THEN st
  ELSE IF lo = hi THEN ArrayCloseStep(st, s[lo], lo)
  ELSE The({ArrayCloseScan(s, m, (lo + hi) \div 2 + 1, hi) :
             m \in {ArrayCloseScan(s, st, lo, (lo + hi) \div 2)}})

\* the position of the ']' that closes the array opened at lb, 0 when it is
\* not closed
ArrayClose(s, lb) ==
  ArrayCloseScan(s, [depth |-> 0, in_str |-> FALSE, esc |-> FALSE, at |-> 0], lb, Len(s)).at

\* "key"\s*:\s*\[ matched at position i: the position of the '[', 0 for no match
BracketAt(s, k) == IF k > 0 /\ k <= Len(s) /\ s[k] = "[" THEN k ELSE 0

KeyArrayOpen(s, i, key) == BracketAt(s, KeyColonWs(s, i, key))

\* the bodies collected by the finditer loop, scanning from position i
RECURSIVE CoalesceBodies(_, _, _)

\* one turn of the finditer loop: the array opens at lb and closes at j (0
\* when it is not closed)
CoalesceAt(s, key, lb, j) ==
  (IF j > 0 THEN <<Slice(s, lb + 1, j - 1)>> ELSE <<>>) \o CoalesceBodies(s, lb + 1, key)

\* the '[' of the first match at or after position i, 0 when there is none
NextKeyArray(s, i, key) ==
  LET at == {j \in i..Len(s) : KeyArrayOpen(s, j, key) > 0}
  IN IF at = {} THEN 0 ELSE KeyArrayOpen(s, MinOf(at), key)

CoalesceNext(s, key, lb) ==
  IF lb = 0 THEN <<>> ELSE CoalesceAt(s, key, lb, ArrayClose(s, lb))

CoalesceBodies(s, i, key) == CoalesceNext(s, key, NextKeyArray(s, i, key))

\* _coalesce_key_arrays: [ok, text]; ok is false for None
MergedBodies(key, bodies) ==
  IF Len(bodies) <= 1 THEN [ok |-> FALSE, text |-> <<>>]
  ELSE [ok |-> TRUE,
        text |-> <<"{">> \o Quoted(key) \o <<":", "[">> \o Join(bodies, <<",">>) \o <<"]", "}">>]

_coalesce_key_arrays(s, key) == MergedBodies(key, CoalesceBodies(s, 1, key))

\* the characters of a bare key (the set `allowed`)
KeyChars == Letters \cup Digits \cup {"_", "@", "-"}

\* one turn of the while loop of _quote_unquoted_object_keys_safe; st.i is the
\* loop's position, and a position the loop has jumped over takes no turn
QuoteKeysStep(s, st, p) ==
  LET ch == s[p]
      j == SkipClass(s, p, KeyChars)
      k == SkipWs(s, j)
      boundary == st.last_non_ws \in {"{", ",", ""}
      next == [st EXCEPT !.i = p + 1, !.out = Append(@, ch)]
  IN CASE st.i # p -> st
       [] st.i = p /\ st.in_str /\ st.esc -> [next EXCEPT !.esc = FALSE]
       [] st.i = p /\ st.in_str /\ ~st.esc /\ ch = BS -> [next EXCEPT !.esc = TRUE]
       [] st.i = p /\ st.in_str /\ ~st.esc /\ ch = Q -> [next EXCEPT !.in_str = FALSE]
       [] st.i = p /\ st.in_str /\ ~st.esc /\ ch \notin {BS, Q} -> next
       [] st.i = p /\ ~st.in_str /\ ch = Q -> [next EXCEPT !.in_str = TRUE]
       [] st.i = p /\ ~st.in_str /\ ch # Q /\ boundary /\ IsSpace(ch) -> next
       [] st.i = p /\ ~st.in_str /\ ch # Q /\ boundary /\ ~IsSpace(ch)
            /\ j > p /\ k <= Len(s) /\ s[k] = ":" ->
            [st EXCEPT !.i = k + 1, !.last_non_ws = ":",
                       !.out = @ \o <<Q>> \o Slice(s, p, j - 1) \o <<Q>>
                                 \o Slice(s, j, k - 1) \o <<":">>]
       [] OTHER -> [next EXCEPT !.last_non_ws = IF IsSpace(ch) THEN @ ELSE ch]

RECURSIVE QuoteKeysScan(_, _, _, _)
QuoteKeysScan(s, st, lo, hi) ==
  IF lo > hi THEN st
  ELSE IF lo = hi THEN QuoteKeysStep(s, st, lo)
  ELSE The({QuoteKeysScan(s, m, (lo + hi) \div 2 + 1, hi) :
             m \in {QuoteKeysScan(s, st, lo, (lo + hi) \div 2)}})

_quote_unquoted_object_keys_safe(s) ==
  QuoteKeysScan(s, [i |-> 1, in_str |-> FALSE, esc |-> FALSE, last_non_ws |-> "",
                    out |-> <<>>], 1, Len(s)).out

\* ------------------------------------------------------------------ decoded values

(***************************************************************************)
(* A decoded value is a record [t, n, e, s, k, l]:                         *)
(*   t = "null"                                                            *)
(*   t = "bool"   n = 0 or 1                                               *)
(*   t = "int"    n the integer                                            *)
(*   t = "float"  the number n * 10^e, e <= 0, n not a multiple of 10      *)
(*                unless e = 0                                             *)
(*   t = "nonfinite"  s the literal (NaN, Infinity, -Infinity)             *)
(*   t = "str"    s the text                                               *)
(*   t = "list"   l the elements                                           *)
(*   t = "dict"   k the keys in insertion order, l their values            *)
(* The fields a kind does not use hold 0 or <<>>.                          *)
(***************************************************************************)
VNull == [t |-> "null", n |-> 0, e |-> 0, s |-> <<>>, k |-> <<>>, l |-> <<>>]
VBool(b) == [t |-> "bool", n |-> IF b THEN 1 ELSE 0, e |-> 0, s |-> <<>>, k |-> <<>>, l |-> <<>>]
VInt(n) == [t |-> "int", n |-> n, e |-> 0, s |-> <<>>, k |-> <<>>, l |-> <<>>]
VNonFinite(w) == [t |-> "nonfinite", n |-> 0, e |-> 0, s |-> w, k |-> <<>>, l |-> <<>>]
VStr(s) == [t |-> "str", n |-> 0, e |-> 0, s |-> s, k |-> <<>>, l |-> <<>>]
VList(l) == [t |-> "list", n |-> 0, e |-> 0, s |-> <<>>, k |-> <<>>, l |-> l]
VDict(k, l) == [t |-> "dict", n |-> 0, e |-> 0, s |-> <<>>, k |-> k, l |-> l]

RECURSIVE Pow10(_)
Pow10(x) == IF x <= 0 THEN 1 ELSE 10 * Pow10(x - 1)

\* the float n * 10^e in its normal form
RECURSIVE VFloat(_, _)
VFloat(n, e) ==
  IF e > 0 THEN VFloat(n * Pow10(e), 0)
  ELSE IF e < 0 /\ n % 10 = 0 THEN VFloat(n \div 10, e + 1)
  ELSE [t |-> "float", n |-> n, e |-> e, s |-> <<>>, k |-> <<>>, l |-> <<>>]

\* isinstance(x, int): bool is a subclass of int
IsInt(v) == v.t \in {"int", "bool"}
IsFloat(v) == v.t \in {"float", "nonfinite"}
IsStr(v) == v.t = "str"
IsList(v) == v.t = "list"
IsDict(v) == v.t = "dict"

\* key in obj, obj[key] and obj.get(key) (None is VNull) of a dict
HasKey(obj, key) == \E i \in 1..Len(obj.k) : obj.k[i] = key
KeyIndex(obj, key) == CHOOSE i \in 1..Len(obj.k) : obj.k[i] = key
Get(obj, key) == IF HasKey(obj, key) THEN obj.l[KeyIndex(obj, key)] ELSE VNull

\* obj[key] = val: a new key goes last, a known key keeps its place
SetKey(obj, key, val) ==
  IF HasKey(obj, key)
    THEN VDict(obj.k, [obj.l EXCEPT ![KeyIndex(obj, key)] = val])
    ELSE VDict(Append(obj.k, key), Append(obj.l, val))

\* obj.pop(key, None)
PopKey(obj, key) ==
  IF HasKey(obj, key)
    THEN LET p == KeyIndex(obj, key)
             keep == [i \in 1..(Len(obj.k) - 1) |-> IF i < p THEN i ELSE i + 1]
         IN VDict([i \in 1..Len(keep) |-> obj.k[keep[i]]], [i \in 1..Len(keep) |-> obj.l[keep[i]]])
    ELSE obj

\* ------------------------------------------------------------------ Structured Decoder

\* the result of a parse step: the value and the position after it
Ok(v, j) == [ok |-> TRUE, v |-> v, j |-> j]
Fail == [ok |-> FALSE, v |-> VNull, j |-> 0]

JsonWs == {" ", "\t", "\n", "\r"}

SkipJsonWs(s, i) == SkipClass(s, i, JsonWs)

\* characters a strict decoder refuses inside a string literal (below U+0020)
ControlChars == {"\t", "\n", "\r", "\f", "NUL", "VT"}

HexChars == Digits \cup {"a", "b", "c", "d", "e", "f", "A", "B", "C", "D", "E", "F"}

\* the character an escape \c stands for; "" when \c is no escape.  A \uXXXX
\* escape decodes to the character named "UESC".
Unescape(c) ==
  CASE c = Q -> Q
    [] c = BS -> BS
    [] c = "/" -> "/"
    [] c = "n" -> "\n"
    [] c = "t" -> "\t"
    [] c = "r" -> "\r"
    [] c = "f" -> "\f"
    [] c = "b" -> "BSP"
    [] OTHER -> ""

\* position p of the string body that starts at position i begins an escape
Escaper(s, p, i) == s[p] = BS /\ BsRun(s, p, i) % 2 = 0

\* the text the body position p decodes to: the character itself, the
\* character of the escape that starts at p, nothing for the rest of an escape
BodyPiece(s, p, i, qc) ==
  IF Escaper(s, p, i)
    THEN IF s[p + 1] = "u" THEN <<"UESC">>
         ELSE IF s[p + 1] = "'" /\ qc = "'" THEN <<"'">>
         ELSE <<Unescape(s[p + 1])>>
  ELSE IF p > i /\ Escaper(s, p - 1, i) THEN <<>>
  ELSE IF \E h \in 2..5 : p - h >= i /\ Escaper(s, p - h, i) /\ s[p - h + 1] = "u" THEN <<>>
  ELSE <<s[p]>>

\* the body position p is one the decoder refuses: a control character, or an
\* escape that is none
BodyRefused(s, p, i, qc) ==
  \/ s[p] \in ControlChars
  \/ /\ Escaper(s, p, i)
     /\ IF s[p + 1] = "u"
          THEN ~(p + 5 <= Len(s) /\ \A h \in 2..5 : s[p + h] \in HexChars)
          ELSE ~(s[p + 1] = "'" /\ qc = "'") /\ Unescape(s[p + 1]) = ""

\* the string literal whose body is s[i..e-1], e being the closing quote
StringBodyTo(s, i, qc, e) ==
  IF \E p \in i..(e - 1) : BodyRefused(s, p, i, qc) THEN Fail
  ELSE Ok(VStr(Concat([p \in 1..(e - i) |-> BodyPiece(s, i + p - 1, i, qc)])), e + 1)

\* the body of a string literal from position i on (after the opening quote),
\* closed by the quote character qc
ParseStringBody(s, i, qc) ==
  LET ends == {j \in i..Len(s) : s[j] = qc /\ BsRun(s, j, i) % 2 = 0}
  IN IF ends = {} THEN Fail ELSE StringBodyTo(s, i, qc, MinOf(ends))

\* the first position >= i that holds no digit, and the number the digits
\* s[i..j-1] spell, continuing the number acc
SkipDigits(s, i) == SkipClass(s, i, Digits)

RECURSIVE DigitsValue(_, _, _, _)
DigitsValue(s, i, j, acc) ==
  IF i >= j THEN acc ELSE DigitsValue(s, i + 1, j, 10 * acc + DigitVal(s[i]))

\* NUMBER_RE = (-?(?:0|[1-9]\d*))(\.\d+)?([eE][-+]?\d+)? matched at position i.
\* The integer part is s[a..b-1], the fraction ends before c and the exponent
\* before d (c = b and d = c when the part is absent).
IntStart(s, i) == IF i <= Len(s) /\ s[i] = "-" THEN i + 1 ELSE i

IntEnd(s, a) == IF a <= Len(s) /\ s[a] = "0" THEN a + 1 ELSE SkipDigits(s, a)

FracEnd(s, b) ==
  IF b + 1 <= Len(s) /\ s[b] = "." /\ IsDigit(s[b + 1]) THEN SkipDigits(s, b + 1) ELSE b

\* the position of the first digit of the exponent that starts at c
ExpDigits(s, c) ==
  IF c + 1 <= Len(s) /\ s[c] \in {"e", "E"} /\ s[c + 1] \in {"+", "-"} THEN c + 2 ELSE c + 1

ExpEnd(s, c) ==
  IF c <= Len(s) /\ s[c] \in {"e", "E"} /\ ExpDigits(s, c) <= Len(s)
       /\ IsDigit(s[ExpDigits(s, c)])
    THEN SkipDigits(s, ExpDigits(s, c)) ELSE c

\* the exponent s[c..d-1] as an integer, 0 when it is absent
ExpValue(s, c, d) ==
  IF d = c THEN 0
  ELSE IF s[ExpDigits(s, c) - 1] = "-" THEN 0 - DigitsValue(s, ExpDigits(s, c), d, 0)
  ELSE DigitsValue(s, ExpDigits(s, c), d, 0)

\* the digits of the integer part and of the fraction as one integer
Mantissa(s, a, b, c) ==
  IF c > b THEN DigitsValue(s, b + 1, c, DigitsValue(s, a, b, 0)) ELSE DigitsValue(s, a, b, 0)

NumberValue(s, sign, a, b, c, d) ==
  IF b = a THEN Fail
  ELSE IF c > b \/ d > c
    THEN Ok(VFloat(sign * Mantissa(s, a, b, c),
                   ExpValue(s, c, d) - (IF c > b THEN c - (b + 1) ELSE 0)), d)
  ELSE Ok(VInt(sign * DigitsValue(s, a, b, 0)), b)

NumberFrac(s, sign, a, b, c) == NumberValue(s, sign, a, b, c, ExpEnd(s, c))

NumberInt(s, sign, a, b) == NumberFrac(s, sign, a, b, FracEnd(s, b))

ParseNumber(s, i) ==
  NumberInt(s, IF IntStart(s, i) > i THEN 0 - 1 ELSE 1, IntStart(s, i), IntEnd(s, IntStart(s, i)))

\* a bare key of the permissive decoder: an identifier
IdentChars == Letters \cup Digits \cup {"_", "$"}

SkipIdent(s, i) == SkipClass(s, i, IdentChars)

\* the character at position i opens a string literal
OpensString(s, i, lax) == i <= Len(s) /\ (s[i] = Q \/ (lax /\ s[i] = "'"))

\* scan_once of the decoder at position i.  lax selects the permissive decoder:
\* single-quoted strings, bare keys and a trailing comma before a closer.
RECURSIVE ParseValue(_, _, _)
RECURSIVE ParseElements(_, _, _, _)
RECURSIVE ParseMembers(_, _, _, _)

\* an object key at position i
ParseKey(s, i, lax) ==
  IF OpensString(s, i, lax) THEN ParseStringBody(s, i + 1, s[i])
  ELSE IF lax /\ i <= Len(s) /\ s[i] \in IdentChars \ Digits
    THEN Ok(VStr(Slice(s, i, SkipIdent(s, i) - 1)), SkipIdent(s, i))
  ELSE Fail

\* an object whose first non-blank position after '{' is j
ParseObject(s, j, lax) ==
  IF j <= Len(s) /\ s[j] = "}" THEN Ok(VDict(<<>>, <<>>), j + 1)
  ELSE ParseMembers(s, j, VDict(<<>>, <<>>), lax)

\* an array whose first non-blank position after '[' is j
ParseArray(s, j, lax) ==
  IF j <= Len(s) /\ s[j] = "]" THEN Ok(VList(<<>>), j + 1)
  ELSE ParseElements(s, j, <<>>, lax)

ParseValue(s, i, lax) ==
  IF i > Len(s) THEN Fail
  ELSE IF OpensString(s, i, lax) THEN ParseStringBody(s, i + 1, s[i])
  ELSE IF s[i] = "{" THEN ParseObject(s, SkipJsonWs(s, i + 1), lax)
  ELSE IF s[i] = "[" THEN ParseArray(s, SkipJsonWs(s, i + 1), lax)
  ELSE IF StartsAt(s, i, W_null) THEN Ok(VNull, i + 4)
  ELSE IF StartsAt(s, i, W_true) THEN Ok(VBool(TRUE), i + 4)
  ELSE IF StartsAt(s, i, W_false) THEN Ok(VBool(FALSE), i + 5)
  ELSE IF StartsAt(s, i, W_NaN) THEN Ok(VNonFinite(W_NaN), i + 3)
  ELSE IF StartsAt(s, i, W_Infinity) THEN Ok(VNonFinite(W_Infinity), i + 8)
  ELSE IF StartsAt(s, i, <<"-">> \o W_Infinity) THEN Ok(VNonFinite(<<"-">> \o W_Infinity), i + 9)
  ELSE ParseNumber(s, i)

\* the rest of an array after the element r: j is the first non-blank position
\* after it and n the first one after j
ElementsAfter(s, acc, lax, r, j, n) ==
  IF ~r.ok \/ j > Len(s) THEN Fail
  ELSE IF s[j] = "]" THEN Ok(VList(Append(acc, r.v)), j + 1)
  ELSE IF s[j] # "," THEN Fail
  ELSE IF lax /\ n <= Len(s) /\ s[n] = "]" THEN Ok(VList(Append(acc, r.v)), n + 1)
  ELSE ParseElements(s, n, Append(acc, r.v), lax)

ElementsNext(s, acc, lax, r) ==
  ElementsAfter(s, acc, lax, r, SkipJsonWs(s, r.j), SkipJsonWs(s, SkipJsonWs(s, r.j) + 1))

\* the elements of an array from position i on (a value is expected at i)
ParseElements(s, i, acc, lax) == ElementsNext(s, acc, lax, ParseValue(s, i, lax))

\* the rest of an object after the member key: r; j and n as for an array
MembersAfter(s, obj, lax, key, r, j, n) ==
  IF ~r.ok \/ j > Len(s) THEN Fail
  ELSE IF s[j] = "}" THEN Ok(SetKey(obj, key.v.s, r.v), j + 1)
  ELSE IF s[j] # "," THEN Fail
  ELSE IF lax /\ n <= Len(s) /\ s[n] = "}" THEN Ok(SetKey(obj, key.v.s, r.v), n + 1)
  ELSE ParseMembers(s, n, SetKey(obj, key.v.s, r.v), lax)

MembersValue(s, obj, lax, key, r) ==
  MembersAfter(s, obj, lax, key, r, SkipJsonWs(s, r.j), SkipJsonWs(s, SkipJsonWs(s, r.j) + 1))

\* the member whose key was read: c is the first non-blank position after it
MembersKey(s, obj, lax, key, c) ==
  IF ~key.ok \/ c > Len(s) \/ s[c] # ":" THEN Fail
  ELSE MembersValue(s, obj, lax, key, ParseValue(s, SkipJsonWs(s, c + 1), lax))

MembersNext(s, obj, lax, key) == MembersKey(s, obj, lax, key, SkipJsonWs(s, key.j))

\* the members of an object from position i on (a key is expected at i)
ParseMembers(s, i, obj, lax) == MembersNext(s, obj, lax, ParseKey(s, i, lax))

\* a decoded value r is the whole text when only white space follows it
WholeText(s, r) == IF r.ok /\ SkipJsonWs(s, r.j) > Len(s) THEN r ELSE Fail

\* decode of a whole text: a value surrounded by white space only
Decode(s, lax) == WholeText(s, ParseValue(s, SkipJsonWs(s, 1), lax))

\* json.loads(s): Fail stands for the exception
json_loads(s) == Decode(s, FALSE)

\* demjson.decode(s), the permissive decoder
demjson_decode(s) == Decode(s, TRUE)

\* what the caller of _try_parsers sees of a decoded value: a decoded null is
\* None, as a failure is
NoneIsFail(r) == IF r.ok /\ r.v # VNull THEN r ELSE Fail

\* lines 160-169: r is the outcome of json.loads
TryDemjson(s, has, r) ==
  IF r.ok THEN NoneIsFail(r)
  ELSE IF has THEN NoneIsFail(Call("demjson.decode", s))
  ELSE Fail

\* _try_parsers(s) with _HAS_DEMJSON = has: Fail stands for None
_try_parsers(s, has) == TryDemjson(s, has, Call("json.loads", s))

\* ------------------------------------------------------------------ json.dumps

\* str(n) of a natural number, and of an integer
RECURSIVE NatText(_)
NatText(n) == IF n < 10 THEN <<DigitChar(n)>> ELSE Append(NatText(n \div 10), DigitChar(n % 10))

IntText(n) == IF n < 0 THEN <<"-">> \o NatText(0 - n) ELSE NatText(n)

\* the digits of n, at least w of them (zero padded on the left)
RECURSIVE PadText(_, _)
PadText(n, w) == IF Len(NatText(n)) >= w THEN NatText(n) ELSE <<"0">> \o PadText(n, w - 1)

\* repr of the float n * 10^e (positional notation)
FloatText(n, e) ==
  LET a == IF n < 0 THEN 0 - n ELSE n
      sign == IF n < 0 THEN <<"-">> ELSE <<>>
  IN IF e = 0 THEN sign \o NatText(a) \o <<".", "0">>
     ELSE sign \o NatText(a \div Pow10(0 - e)) \o <<".">> \o PadText(a % Pow10(0 - e), 0 - e)

\* the escape of one character in a string literal written by json.dumps with
\* ensure_ascii=False
EscapeChar(c) ==
  CASE c = Q -> <<BS, Q>>
    [] c = BS -> <<BS, BS>>
    [] c = "\n" -> <<BS, "n">>
    [] c = "\r" -> <<BS, "r">>
    [] c = "\t" -> <<BS, "t">>
    [] c = "\f" -> <<BS, "f">>
    [] c = "BSP" -> <<BS, "b">>
    [] c = "NUL" -> <<BS, "u", "0", "0", "0", "0">>
    [] c = "VT" -> <<BS, "u", "0", "0", "0", "b">>
    [] OTHER -> <<c>>

StrLiteral(s) == <<Q>> \o Concat([i \in 1..Len(s) |-> EscapeChar(s[i])]) \o <<Q>>

\* json.dumps(v, ensure_ascii=False)
RECURSIVE Dumps(_)
Dumps(v) ==
  CASE v.t = "null" -> W_null
    [] v.t = "bool" -> IF v.n = 1 THEN W_true ELSE W_false
    [] v.t = "int" -> IntText(v.n)
    [] v.t = "float" -> FloatText(v.n, v.e)
    [] v.t = "nonfinite" -> v.s
    [] v.t = "str" -> StrLiteral(v.s)
    [] v.t = "list" ->
         <<"[">> \o Join([i \in 1..Len(v.l) |-> Dumps(v.l[i])], <<",", " ">>) \o <<"]">>
    [] v.t = "dict" ->
         <<"{">> \o Join([i \in 1..Len(v.k) |-> StrLiteral(v.k[i]) \o <<":", " ">> \o Dumps(v.l[i])],
                         <<",", " ">>) \o <<"}">>

\* ------------------------------------------------------------------ Schema Normalizer

\* a == b of Python for the values a list of indices can hold
PyEq(a, b) ==
  IF IsInt(a) /\ IsInt(b) THEN a.n = b.n
  ELSE IF (IsInt(a) /\ b.t = "float") \/ (a.t = "float" /\ IsInt(b)) THEN a.e = 0 /\ b.e = 0 /\ a.n = b.n
  ELSE a = b /\ a.t # "nonfinite"

\* a list that keeps every occurrence: what list(dict.fromkeys(xs)) must not be
DedupeKeepAll(xs, acc) == acc \o xs

\* list(dict.fromkeys(xs)): the first occurrence of every value, in order
RECURSIVE Dedupe(_, _)
Dedupe(xs, acc) ==
  IF xs = <<>> THEN acc
  ELSE IF \E i \in 1..Len(acc) : PyEq(acc[i], Head(xs)) THEN Dedupe(Tail(xs), acc)
  ELSE Dedupe(Tail(xs), Append(acc, Head(xs)))

\* x.strip() of a text
RStrip(s) ==
  LET keep == {j \in 0..Len(s) : j = 0 \/ ~IsSpace(s[j])}
  IN SubSeq(s, 1, CHOOSE j \in keep : \A m \in keep : m <= j)

Strip(s) == RStrip(From(s, SkipWs(s, 1)))

\* x.isdigit() of a text
IsDigitText(s) == s # <<>> /\ \A i \in 1..Len(s) : IsDigitPy(s[i])

\* int(x) of a text raises ValueError
IntRaises(s) == s = <<>> \/ \E i \in 1..Len(s) : ~IsDigit(s[i])

\* the placeholder texts an explanation is reset for (line 195)
PlaceholderExplanations == {W_string, W_STRING, W_ratings}

\* the loop of lines 204-208 over the entries of obj["non_neutral"]
\* line 208 for the stripped text t of an entry
CoerceStr(t) ==
  IF IsDigitText(t) THEN <<VInt(DigitsValue(t, 1, Len(t) + 1, 0))>> ELSE <<>>

\* what one entry x adds to the list
CoerceOne(x) ==
  IF IsInt(x) THEN <<x>>
  ELSE IF x.t = "float" /\ x.e = 0 THEN <<VInt(x.n)>>
  ELSE IF IsStr(x) THEN CoerceStr(Strip(x.s))
  ELSE <<>>

CoerceInts(xs) == Concat([i \in 1..Len(xs) |-> CoerceOne(xs[i])])

\* int(t) of line 208 is reached and raises
StrRaises(t) == IsDigitText(t) /\ IntRaises(t)

\* the loop of line 208 reaches an int() that raises
CoerceRaises(xs) == \E i \in 1..Len(xs) : IsStr(xs[i]) /\ StrRaises(Strip(xs[i].s))

\* lines 199-202: the snt list of every scene result keeps its dict entries only
FilterSnt(sr) ==
  IF IsDict(sr) /\ IsList(Get(sr, W_snt))
    THEN SetKey(sr, W_snt, VList(SelectSeq(Get(sr, W_snt).l, IsDict)))
    ELSE sr

NormAliasNn(obj) ==
  IF HasKey(obj, W_nn) /\ ~HasKey(obj, W_non_neutral)
    THEN SetKey(obj, W_non_neutral, Get(obj, W_nn)) ELSE obj

NormAliasSceneIndices(obj) ==
  IF HasKey(obj, W_scene_indices) /\ ~HasKey(obj, W_non_neutral)
    THEN SetKey(obj, W_non_neutral, Get(obj, W_scene_indices)) ELSE obj

NormExplanation(obj) ==
  IF HasKey(obj, W_explanation) /\ IsStr(Get(obj, W_explanation))
       /\ Get(obj, W_explanation).s \in PlaceholderExplanations
    THEN SetKey(obj, W_explanation, VStr(<<>>)) ELSE obj

NormFinalRating(obj) ==
  IF Get(obj, W_final_rating) = VStr(W_ratings) THEN PopKey(obj, W_final_rating) ELSE obj

NormSceneResults(obj) ==
  IF HasKey(obj, W_scene_results) /\ IsList(Get(obj, W_scene_results))
    THEN SetKey(obj, W_scene_results,
                VList([i \in 1..Len(Get(obj, W_scene_results).l) |->
                         FilterSnt(Get(obj, W_scene_results).l[i])]))
    ELSE obj

NormNonNeutral(obj) ==
  IF HasKey(obj, W_non_neutral) /\ IsList(Get(obj, W_non_neutral))
    THEN SetKey(obj, W_non_neutral, VList(Dedupe(CoerceInts(Get(obj, W_non_neutral).l), <<>>)))
    ELSE obj

\* the object as it is when line 203 is reached
NormBeforeNonNeutral(obj) ==
  NormSceneResults(NormFinalRating(NormExplanation(NormAliasSceneIndices(NormAliasNn(obj)))))

\* lines 203-208 raise for the object as it is at line 203
NonNeutralRaises(obj) ==
  /\ HasKey(obj, W_non_neutral)
  /\ IsList(Get(obj, W_non_neutral))
  /\ CoerceRaises(Get(obj, W_non_neutral).l)

\* _normalize(obj) raises (the int() of line 208)
NormalizeRaises(obj) == IsDict(obj) /\ NonNeutralRaises(NormBeforeNonNeutral(obj))

\* a normalizer that wraps no array
NormalizeObjectsOnly(obj) ==
  IF IsDict(obj) THEN NormNonNeutral(NormBeforeNonNeutral(obj)) ELSE obj

\* _normalize(obj), where it returns
_normalize(obj) ==
  IF IsList(obj)
    THEN IF \A i \in 1..Len(obj.l) : IsInt(obj.l[i])
           THEN VDict(<<W_non_neutral>>, <<VList(Dedupe(obj.l, <<>>))>>)
         ELSE IF obj.l # <<>> /\ \A i \in 1..Len(obj.l) : IsDict(obj.l[i]) /\ HasKey(obj.l[i], W_scID)
           THEN VDict(<<W_scene_results>>, <<obj>>)
         ELSE VDict(<<W_ans>>, <<obj>>)
  ELSE IF IsDict(obj) THEN NormNonNeutral(NormBeforeNonNeutral(obj))
  ELSE obj

\* ------------------------------------------------------------------ Scorer

ScoreFinalRating == 300
ScoreAns == 120
ScoreSceneResults == 110
ScoreNonNeutral == 105
ScoreLabels == 10
ScorePrefer == 1000

\* line 178 for the text js of the object
HasLabels(js) == Contains(js, Quoted(W_vlc)) \/ Contains(js, Quoted(W_det))

\* prefer is a text; the empty text stands for None (and for "", as falsy)
_score(obj, prefer) ==
  IF ~IsDict(obj) THEN 0 - 1
  ELSE (IF HasKey(obj, W_final_rating) THEN ScoreFinalRating ELSE 0)
     + (IF HasKey(obj, W_ans) THEN ScoreAns ELSE 0)
     + (IF HasKey(obj, W_scene_results) THEN ScoreSceneResults ELSE 0)
     + (IF HasKey(obj, W_non_neutral) \/ HasKey(obj, W_scene_indices) \/ HasKey(obj, W_nn)
          THEN ScoreNonNeutral ELSE 0)
     + (IF HasLabels(Dumps(obj)) THEN ScoreLabels ELSE 0)
     + (IF prefer # <<>> /\ HasKey(obj, prefer) THEN ScorePrefer ELSE 0)

\* ------------------------------------------------------------------ Last-Resort Extractor

\* s.count(w): the occurrences of w that do not overlap, from position i on
RECURSIVE CountFrom(_, _, _)
CountFrom(s, i, w) ==
  IF NextWord(s, i, w) = 0 THEN 0 ELSE 1 + CountFrom(s, NextWord(s, i, w) + Len(w), w)

Count(s, w) == CountFrom(s, 1, w)

\* \s*(\d+)\s* from position i on: [ok, lo, hi, j], the digits are s[lo..hi] and
\* j is the position after the white space that follows them
DigitsToken(s, i) ==
  LET lo == SkipWs(s, i)
      hi == SkipDigits(s, lo) - 1
  IN [ok |-> hi >= lo, lo |-> lo, hi |-> hi, j |-> SkipWs(s, hi + 1)]

\* the position after  ,\s*  when the token d is followed by a comma, 0 otherwise
AfterComma(s, d) ==
  IF d.ok /\ d.j <= Len(s) /\ s[d.j] = "," THEN SkipWs(s, d.j + 1) ELSE 0

\* "key"\s*:\s*(\d+)\s*,\s*  matched at position i (0 for no position): the digits
\* as a token and the position after the match, 0 for no match
KeyDigits(s, i, key) ==
  IF i = 0 \/ KeyColon(s, i, key) = 0 THEN [ok |-> FALSE, lo |-> 0, hi |-> 0, j |-> 0]
  ELSE [DigitsToken(s, KeyColon(s, i, key))
          EXCEPT !.j = AfterComma(s, DigitsToken(s, KeyColon(s, i, key))),
                 !.ok = @ /\ AfterComma(s, DigitsToken(s, KeyColon(s, i, key))) > 0]

\* "det"\s*:\s*\[(.*?)\]  matched at position i (0 for no position): the '[' and
\* the first ']' after it, as [lb, rb]; rb = 0 for no match
DetBody(s, i) ==
  IF i = 0 \/ BracketAt(s, KeyColonWs(s, i, W_det)) = 0 THEN [lb |-> 0, rb |-> 0]
  ELSE [lb |-> BracketAt(s, KeyColonWs(s, i, W_det)),
        rb |-> NextChar(s, BracketAt(s, KeyColonWs(s, i, W_det)) + 1, "]")]

Stage2Groups(s, scid, sid, det) ==
  IF det.rb = 0 THEN [ok |-> FALSE, scid |-> <<>>, sid |-> <<>>, body |-> <<>>, j |-> 0]
  ELSE [ok |-> TRUE, scid |-> Slice(s, scid.lo, scid.hi), sid |-> Slice(s, sid.lo, sid.hi),
        body |-> Slice(s, det.lb + 1, det.rb - 1), j |-> det.rb + 1]

Stage2AfterId(s, scid, sid) == Stage2Groups(s, scid, sid, DetBody(s, sid.j))

Stage2AfterScID(s, scid) == Stage2AfterId(s, scid, KeyDigits(s, scid.j, W_id))

\* _STAGE2_ENTRY_RE matched at position i: the two groups of digits, the det
\* body (up to the first ']') and the position after the match
Stage2Entry(s, i) == Stage2AfterScID(s, KeyDigits(s, i, W_scID))

\* ']' * n
Closers(n) == [i \in 1..n |-> "]"]

\* det_fixed of det_body (lines 294-296)
DetFixed(det_body) ==
  det_body \o Closers(Max(0, Count(det_body, <<"[">>) - Count(det_body, <<"]">>)))

\* the item synthesized for one match (lines 293-297)
Stage2Item(m) ==
  <<"{">> \o Quoted(W_scID) \o <<":">> \o m.scid \o <<",">> \o Quoted(W_id) \o <<":">> \o m.sid
    \o <<",">> \o Quoted(W_det) \o <<":", "[">>
    \o DetFixed(Call("_sanitize_text_fields", m.body)) \o <<"]", "}">>

\* the items of the finditer loop, scanning from position i
RECURSIVE Stage2Items(_, _)

Stage2ItemsAt(t, m) == <<Stage2Item(m)>> \o Stage2Items(t, m.j)

\* the first position j >= i where _STAGE2_ENTRY_RE matches, 0 when there is none
NextStage2Entry(t, i) ==
  LET at == {j \in i..Len(t) : Stage2Entry(t, j).ok}
  IN IF at = {} THEN 0 ELSE MinOf(at)

Stage2ItemsNext(t, j) == IF j = 0 THEN <<>> ELSE Stage2ItemsAt(t, Stage2Entry(t, j))

Stage2Items(t, i) == Stage2ItemsNext(t, NextStage2Entry(t, i))

\* ans_text of the items (line 300)
AnsText(items) ==
  <<"{">> \o Quoted(W_ans) \o <<":", "[">> \o Join(items, <<",">>) \o <<"]", "}">>

\* the outcome of lines 298-303 for the items found and the decoded ans_text
Stage2Parsed(items, parsed) ==
  IF items = <<>> THEN Fail
  ELSE IF parsed.ok /\ IsDict(parsed.v) /\ HasKey(parsed.v, W_ans) THEN parsed
  ELSE Fail

Stage2FromItems(items, has) ==
  Stage2Parsed(items,
    Call("_try_parsers",
         <<Call("_autoclose", Call("_fix_comma_issues", Call("_remove_strays",
             Call("_sanitize_text_fields", AnsText(items))))), has>>))

\* _fallback_extract_stage2_ans(s): Fail stands for None
_fallback_extract_stage2_ans(s, has) ==
  Stage2FromItems(
    Stage2Items(Call("_replace_type_placeholders", Call("_fix_comma_issues",
      Call("_remove_strays", Call("_sanitize_text_fields", Call("_base_clean", s))))), 1),
    has)

\* the part  \d+\s*(?:,\s*\d+\s*)*\]  of _INT_ARRAY_RE from position i on: the
\* position after the match, 0 for no match
RECURSIVE IntArrayRest(_, _)

IntArrayAfter(s, i, d) ==
  IF ~d.ok \/ d.lo # i \/ d.j > Len(s) THEN 0
  ELSE IF s[d.j] = "]" THEN d.j + 1
  ELSE IF s[d.j] = "," THEN IntArrayRest(s, SkipWs(s, d.j + 1))
  ELSE 0

IntArrayRest(s, i) == IntArrayAfter(s, i, DigitsToken(s, i))

\* _INT_ARRAY_RE matched at position i: the position after the match, 0 for none
IntArrayEnd(s, i) ==
  IF i <= Len(s) /\ s[i] = "[" THEN IntArrayRest(s, SkipWs(s, i + 1)) ELSE 0

\* the first position where _INT_ARRAY_RE matches, 0 when there is none
IntArrayStart(s) ==
  LET at == {j \in 1..Len(s) : IntArrayEnd(s, j) > 0}
  IN IF at = {} THEN 0 ELSE MinOf(at)

IntArrayFrom(s, lo) ==
  IF lo = 0 THEN [ok |-> FALSE, lo |-> 0, hi |-> 0]
  ELSE [ok |-> TRUE, lo |-> lo, hi |-> IntArrayEnd(s, lo) - 1]

\* _INT_ARRAY_RE.search(s): the first match as [ok, lo, hi]
IntArraySearch(s) == IntArrayFrom(s, IntArrayStart(s))

\* lines 311-316: arr is json.loads of the matched text
Stage0FromArray(arr) ==
  IF arr.ok /\ IsList(arr.v) /\ \A i \in 1..Len(arr.v.l) : IsInt(arr.v.l[i])
    THEN Ok(VDict(<<W_non_neutral>>, <<VList(Dedupe(arr.v.l, <<>>))>>), 0)
    ELSE Fail

Stage0FromMatch(s, m) ==
  IF ~m.ok THEN Fail ELSE Stage0FromArray(Call("json.loads", Slice(s, m.lo, m.hi)))

\* a fallback that takes the digits of a text without asking for brackets
Stage0Unbracketed(s) ==
  IF \E i \in 1..Len(s) : IsDigit(s[i])
    THEN Ok(VDict(<<W_non_neutral>>,
                  <<VList([i \in 1..Cardinality({p \in 1..Len(s) : IsDigit(s[p])}) |-> VInt(0)])>>), 0)
    ELSE Fail

\* _fallback_extract_stage0_non_neutral(s): Fail stands for None
_fallback_extract_stage0_non_neutral(s) == Stage0FromMatch(s, IntArraySearch(s))

\* ------------------------------------------------------------------ parse_llm_response: steps

W_channel == <<"<", "|", "c", "h", "a", "n", "n", "e", "l", "|", ">">>
W_message == <<"<", "|", "m", "e", "s", "s", "a", "g", "e", "|", ">">>

\* <\|channel\|\>\s*final\s*<\|message\|\> (re.I) matched at position i: the
\* position after the match, 0 for no match
FinalMarkerEnd(s, i) ==
  LET a == IF StartsAtI(s, i, W_channel) THEN SkipWs(s, i + Len(W_channel)) ELSE 0
      b == IF a > 0 /\ StartsAtI(s, a, W_final) THEN SkipWs(s, a + Len(W_final)) ELSE 0
  IN IF b > 0 /\ StartsAtI(s, b, W_message) THEN b + Len(W_message) ELSE 0

\* m_final.end() + 1 of the search of line 322, 0 when there is no marker
FinalMarkerSearch(s) ==
  LET at == {j \in 1..Len(s) : FinalMarkerEnd(s, j) > 0}
  IN IF at = {} THEN 0 ELSE FinalMarkerEnd(s, MinOf(at))

\* the candidate taken after the final-channel marker (lines 322-325): e is
\* the position after the marker and frag the balanced slice from there
FragmentAfter(raw, e, frag) ==
  IF e > 0 /\ frag.ok THEN <<Slice(raw, frag.lo, frag.hi)>> ELSE <<>>

FragmentFrom(raw, e) == FragmentAfter(raw, e, Call("_balanced_slice", <<raw, e>>))

FinalFragment(raw) == FragmentFrom(raw, FinalMarkerSearch(raw))

\* lines 327-328: the candidates found, or the text from the first '{' on
CandidatesOr(stripped, found) ==
  IF found = <<>> /\ Contains(stripped, <<"{">>)
    THEN <<From(stripped, Find(stripped, <<"{">>))>>
    ELSE found

CandidatesOf(raw, stripped) ==
  CandidatesOr(stripped, FinalFragment(raw) \o Call("_find_regions", stripped))

\* the candidates of lines 321-328
Candidates(raw) == CandidatesOf(raw, Call("_base_clean", raw))

\* one coalescing step of lines 343-346 for the key k: merged is the outcome of
\* _coalesce_key_arrays
CoalesceWith(repaired, merged) == IF merged.ok THEN merged.text ELSE repaired

CoalesceStep(repaired, k) ==
  IF Count(repaired, Quoted(k)) > 1
    THEN CoalesceWith(repaired, Call("_coalesce_key_arrays", <<repaired, k>>))
    ELSE repaired

\* the text of lines 336-342, before the coalescing steps
RepairPasses(repaired) ==
  Call("_autoclose",
    Call("_sanitize_text_fields",
      Call("_quote_unquoted_object_keys_safe",
        Call("_remove_strays",
          Call("_fix_comma_issues",
            Call("_normalize_stage2_stray_segments",
              Call("_replace_type_placeholders", repaired)))))))

\* the text handed to the decoder at the end of one round (lines 336-346)
RepairRound(repaired) ==
  Call("CoalesceStep",
       <<Call("CoalesceStep", <<RepairPasses(repaired), W_scene_results>>), W_ans>>)

\* range(6) of line 335
MaxRounds == 6

\* one entry of parsed_list (line 350)
Entry(obj, prefer, text) ==
  [score |-> Call("_score", <<obj, prefer>>), obj |-> obj, text |-> text]

\* the position at which an entry of score sc goes into a list sorted by
\* decreasing score, after every entry of the same score: list.sort is stable
InsertPos(sorted, sc) ==
  1 + Cardinality({i \in 1..Len(sorted) : sorted[i].score >= sc})

InsertAt(sorted, x, p) == SubSeq(sorted, 1, p - 1) \o <<x>> \o SubSeq(sorted, p, Len(sorted))

InsertSorted(sorted, x) == InsertAt(sorted, x, InsertPos(sorted, x.score))

\* parsed_list.sort(key=lambda x: x[0], reverse=True)
RECURSIVE SortByScore(_, _)
SortByScore(xs, acc) ==
  IF xs = <<>> THEN acc ELSE SortByScore(Tail(xs), InsertSorted(acc, Head(xs)))

\* lines 368-376: the object returned for a non-empty parsed_list
SelectFrom(sorted, prefer) ==
  LET withKey == {i \in 1..Len(sorted) : HasKey(sorted[i].obj, prefer)}
  IN IF prefer # <<>> /\ withKey # {} THEN sorted[MinOf(withKey)].obj ELSE sorted[1].obj

Select(parsed_list, prefer) == SelectFrom(SortByScore(parsed_list, <<>>), prefer)

\* the outcome of a call: a returned object and the return statement it left
\* by ("select", "pattern_a", "pattern_b"), the ValueError of line 366, or
\* another exception that leaves the call (the int() of line 208)
Returned(v, by) == [kind |-> "return", v |-> v, by |-> by]
Unrecoverable == [kind |-> "unrecoverable", v |-> VNull, by |-> "raise"]
OtherError == [kind |-> "error", v |-> VNull, by |-> "raise"]
Running == [kind |-> "running", v |-> VNull, by |-> ""]

\* the outcome of  return _normalize(v)
NormalizeAndReturn(v, by) ==
  IF Call("NormalizeRaises", v) THEN OtherError ELSE Returned(Call("_normalize", v), by)

\* lines 361-366: fb0 is the outcome of the second fallback
Stage0Outcome(fb0) == IF fb0.ok THEN Returned(fb0.v, "pattern_b") ELSE Unrecoverable

\* lines 357-366: fb2 is the outcome of the first fallback
Stage2Outcome(stripped, fb2) ==
  IF fb2.ok THEN NormalizeAndReturn(fb2.v, "pattern_a")
  ELSE Stage0Outcome(Call("_fallback_extract_stage0_non_neutral", stripped))

\* lines 356-366: the outcome when parsed_list is empty
FallbackOutcome(stripped, has) ==
  Stage2Outcome(stripped, Call("_fallback_extract_stage2_ans", <<stripped, has>>))

\* the rounds of one candidate from round r on (lines 335-352): [ok, raised,
\* obj, text]; ok when a round decoded, raised when _normalize raised
RECURSIVE RoundsFrom(_, _, _)

\* lines 347-352 for the text of the round and its decoded value d
RoundDecoded(text, r, has, d) ==
  IF ~d.ok THEN RoundsFrom(text, r + 1, has)
  ELSE IF Call("NormalizeRaises", d.v)
    THEN [ok |-> FALSE, raised |-> TRUE, obj |-> VNull, text |-> text]
  ELSE [ok |-> TRUE, raised |-> FALSE, obj |-> Call("_normalize", d.v), text |-> text]

RoundRepaired(text, r, has) == RoundDecoded(text, r, has, Call("_try_parsers", <<text, has>>))

RoundsFrom(repaired, r, has) ==
  IF r >= MaxRounds THEN [ok |-> FALSE, raised |-> FALSE, obj |-> VNull, text |-> repaired]
  ELSE RoundRepaired(Call("RepairRound", repaired), r, has)

\* the loop of lines 331-354 from candidate idx on: the outcome of the call
RECURSIVE CandidatesFrom(_, _, _, _, _, _)

\* the loop after the rounds c of candidate idx
CandidateDone(cands, idx, parsed_list, stripped, prefer, has, c) ==
  IF c.raised THEN OtherError
  ELSE CandidatesFrom(cands, idx + 1,
         IF c.ok THEN Append(parsed_list, Entry(c.obj, prefer, c.text)) ELSE parsed_list,
         stripped, prefer, has)

CandidatesFrom(cands, idx, parsed_list, stripped, prefer, has) ==
  IF idx > Len(cands)
    THEN IF parsed_list = <<>> THEN FallbackOutcome(stripped, has)
         ELSE Returned(Call("Select", <<parsed_list, prefer>>), "select")
  ELSE CandidateDone(cands, idx, parsed_list, stripped, prefer, has,
                     RoundsFrom(Call("_base_clean", cands[idx]), 0, has))

\* parse_llm_response(raw, prefer=prefer) with _HAS_DEMJSON = has
parse_llm_response(raw, prefer, has) ==
  CandidatesFrom(Call("Candidates", raw), 1, <<>>, Call("_base_clean", raw), prefer, has)

\* ------------------------------------------------------------------ Rewrite parser (back/backend/ai/rewrite_scenes.py): cleaning

W_rewrites == <<"r", "e", "w", "r", "i", "t", "e", "s">>
W_changes == <<"c", "h", "a", "n", "g", "e", "s">>
W_scene_index == <<"s", "c", "e", "n", "e", "_", "i", "n", "d", "e", "x">>
W_rationale == <<"r", "a", "t", "i", "o", "n", "a", "l", "e">>
W_reason == <<"r", "e", "a", "s", "o", "n">>
W_dots == <<".", ".", ".">>

\* the {0,120} of _WRAPPER_RE (line 73)
RewriteWrapperMaxInner == 120

\* _WRAPPER_RE  <\|[^|]{0,120}\|>
RewriteWrapperEnd(s, i) ==
  IF ~StartsAt(s, i, <<"<", "|">>) THEN 0
  ELSE LET j == NextChar(s, i + 2, "|")
       IN IF j = 0 \/ j - (i + 2) > RewriteWrapperMaxInner THEN 0
          ELSE IF j + 1 <= Len(s) /\ s[j + 1] = ">" THEN j + 2
          ELSE 0

\* a match of a pattern of _clean_json_text at position i is [e, g]: e the
\* position after the match (0 for no match), g the position after group 1
NoMatch == [e |-> 0, g |-> 0]
MatchTo(e, g) == [e |-> e, g |-> g]

\* \[\s*\.\.\.\s*\]
EllipsisArrayAt(s, i) ==
  IF i > Len(s) \/ s[i] # "[" THEN NoMatch
  ELSE LET k == SkipWs(s, i + 1)
           m == IF StartsAt(s, k, W_dots) THEN SkipWs(s, k + 3) ELSE 0
       IN IF m > 0 /\ m <= Len(s) /\ s[m] = "]" THEN MatchTo(m + 1, 0) ELSE NoMatch

\* ([:\[\{,]\s*)\.\.\.(?=\s*[,}\]\)])
EllipsisValueAt(s, i) ==
  IF i > Len(s) \/ s[i] \notin {":", "[", "{", ","} THEN NoMatch
  ELSE LET k == SkipWs(s, i + 1)
           m == IF StartsAt(s, k, W_dots) THEN SkipWs(s, k + 3) ELSE 0
       IN IF m > 0 /\ m <= Len(s) /\ s[m] \in {",", "}", "]", ")"}
            THEN MatchTo(k + 3, k) ELSE NoMatch

\* \.+(?=\D) from position d: the position after the dots, 0 for no match.
\* The run of dots is taken whole when a character that is no digit follows
\* it; otherwise one dot is given back, and the dot given back is the \D.
DotsEnd(s, d) ==
  IF d > Len(s) \/ s[d] # "." THEN 0
  ELSE LET e == SkipClass(s, d, {"."})
       IN IF e <= Len(s) /\ ~IsDigit(s[e]) THEN e
          ELSE IF e - d >= 2 THEN e - 1
          ELSE 0

\* (\d(?:\.\d+)?)\.+(?=\D): the fraction is tried first, then the digit alone
NumberDotsAt(s, i) ==
  IF i > Len(s) \/ ~IsDigit(s[i]) THEN NoMatch
  ELSE LET f == IF i + 1 <= Len(s) /\ s[i + 1] = "." THEN SkipClass(s, i + 2, Digits) ELSE 0
       IN IF f > i + 2 /\ DotsEnd(s, f) > 0 THEN MatchTo(DotsEnd(s, f), f)
          ELSE IF DotsEnd(s, i + 1) > 0 THEN MatchTo(DotsEnd(s, i + 1), i + 1)
          ELSE NoMatch

\* \bNaN\b|\bInfinity\b|\binf\b|\b-?Infinity\b with re.I
NonFiniteAt(s, i) ==
  LET word(w, p) == StartsAtI(s, p, w) /\ WordBoundary(s, p) /\ WordBoundary(s, p + Len(w))
      nan == <<"n", "a", "n">>
      infinity == <<"i", "n", "f", "i", "n", "i", "t", "y">>
      inf == <<"i", "n", "f">>
  IN IF word(nan, i) THEN MatchTo(i + 3, 0)
     ELSE IF word(infinity, i) THEN MatchTo(i + 8, 0)
     ELSE IF word(inf, i) THEN MatchTo(i + 3, 0)
     ELSE IF i <= Len(s) /\ s[i] = "-" /\ WordBoundary(s, i) /\ StartsAtI(s, i + 1, infinity)
             /\ WordBoundary(s, i + 9)
       THEN MatchTo(i + 9, 0)
     ELSE NoMatch

\* ,\s*([}\]])
TrailingCommaAt(s, i) ==
  IF i > Len(s) \/ s[i] # "," THEN NoMatch
  ELSE LET k == SkipWs(s, i + 1)
       IN IF k <= Len(s) /\ s[k] \in {"}", "]"} THEN MatchTo(k + 1, k + 1) ELSE NoMatch

\* the first quote character qc at or after position v that no backslash
\* escapes, 0 when there is none
ClosingOf(s, v, qc) ==
  LET at == {j \in v..Len(s) : s[j] = qc /\ BsRun(s, j, v) % 2 = 0}
  IN IF at = {} THEN 0 ELSE MinOf(at)

\* (?<!["\\])'([^'\\]*(?:\\.[^'\\]*)*)'(?!["\\]): g is the closing quote
SingleQuotedAt(s, i) ==
  IF i > Len(s) \/ s[i] # "'" \/ (i > 1 /\ s[i - 1] \in {Q, BS}) THEN NoMatch
  ELSE LET c == ClosingOf(s, i + 1, "'")
       IN IF c = 0 THEN NoMatch
          ELSE IF \E p \in (i + 1)..(c - 1) :
                    s[p] = BS /\ BsRun(s, p, i + 1) % 2 = 0 /\ s[p + 1] = NL
            THEN NoMatch
          ELSE IF c + 1 <= Len(s) /\ s[c + 1] \in {Q, BS} THEN NoMatch
          ELSE MatchTo(c + 1, c)

\* (?<=[\{\s,])([A-Za-z0-9_@\-]+)\s*:(?=\s)
BareKeyAt(s, i) ==
  IF i < 2 \/ i > Len(s) \/ ~(s[i - 1] \in {"{", ","} \/ IsSpace(s[i - 1])) THEN NoMatch
  ELSE LET j == SkipClass(s, i, KeyChars)
           k == SkipWs(s, j)
       IN IF j > i /\ k <= Len(s) /\ s[k] = ":" /\ k + 1 <= Len(s) /\ IsSpace(s[k + 1])
            THEN MatchTo(k + 1, j) ELSE NoMatch

\* "\s*null\s*"
QuotedNullAt(s, i) ==
  IF i > Len(s) \/ s[i] # Q THEN NoMatch
  ELSE LET k == SkipWs(s, i + 1)
           m == IF StartsAt(s, k, W_null) THEN SkipWs(s, k + 4) ELSE 0
       IN IF m > 0 /\ m <= Len(s) /\ s[m] = Q THEN MatchTo(m + 1, 0) ELSE NoMatch

\* the position after a match of another pattern, without a group
Ends(e) == IF e > 0 THEN MatchTo(e, 0) ELSE NoMatch

\* the patterns of _clean_json_text (lines 80-97), by name
CleanMatch(re, s, i) ==
  CASE re = "wrapper" -> Ends(RewriteWrapperEnd(s, i))
    [] re = "line_comment" -> Ends(LineCommentEnd(s, i))
    [] re = "block_comment" -> Ends(BlockCommentEnd(s, i))
    [] re = "ellipsis_array" -> EllipsisArrayAt(s, i)
    [] re = "ellipsis_value" -> EllipsisValueAt(s, i)
    [] re = "dots" -> Ends(IF StartsAt(s, i, W_dots) THEN i + 3 ELSE 0)
    [] re = "number_dots" -> NumberDotsAt(s, i)
    [] re = "non_finite" -> NonFiniteAt(s, i)
    [] re = "brace_brace" -> Ends(PairEnd(s, i, "}", "{"))
    [] re = "bracket_brace" -> Ends(PairEnd(s, i, "]", "{"))
    [] re = "brace_bracket" -> Ends(PairEnd(s, i, "}", "["))
    [] re = "trailing_comma" -> TrailingCommaAt(s, i)
    [] re = "single_quoted" -> SingleQuotedAt(s, i)
    [] re = "bare_key" -> BareKeyAt(s, i)
    [] re = "quoted_null" -> QuotedNullAt(s, i)

\* inner.replace('"', '\\"') of _single_to_double
EscapeQuotes(inner) ==
  Concat([p \in 1..Len(inner) |-> IF inner[p] = Q THEN <<BS, Q>> ELSE <<inner[p]>>])

\* the text that replaces the match m found at position i
CleanReplacement(re, s, i, m) ==
  CASE re \in {"wrapper", "line_comment", "block_comment"} -> <<>>
    [] re = "ellipsis_array" -> <<"[", "]">>
    [] re = "ellipsis_value" -> Slice(s, i, m.g - 1) \o W_null
    [] re \in {"dots", "non_finite", "quoted_null"} -> W_null
    [] re = "number_dots" -> Slice(s, i, m.g - 1)
    [] re = "brace_brace" -> <<"}", ",", " ", "{">>
    [] re = "bracket_brace" -> <<"]", ",", " ", "{">>
    [] re = "brace_bracket" -> <<"}", ",", " ", "[">>
    [] re = "trailing_comma" -> <<s[m.e - 1]>>
    [] re = "single_quoted" -> <<Q>> \o EscapeQuotes(Slice(s, i + 1, m.g - 1)) \o <<Q>>
    [] re = "bare_key" -> <<Q>> \o Slice(s, i, m.g - 1) \o <<Q, ":">>

\* the first position j >= i where the pattern matches, 0 when there is none
NextCleanMatch(re, s, i) ==
  LET at == {j \in i..Len(s) : CleanMatch(re, s, j).e > 0}
  IN IF at = {} THEN 0 ELSE MinOf(at)

\* re.sub (and str.replace) in _clean_json_text: the matches from left to
\* right, none overlapping another, each replaced
RECURSIVE CleanSubFrom(_, _, _)

CleanSubAt(re, s, i, j, m) ==
  IF j = 0 THEN From(s, i)
  ELSE Slice(s, i, j - 1) \o CleanReplacement(re, s, j, m) \o CleanSubFrom(re, s, m.e)

CleanSubFrom(re, s, i) ==
  The({CleanSubAt(re, s, i, j, IF j = 0 THEN NoMatch ELSE CleanMatch(re, s, j)) :
        j \in {NextCleanMatch(re, s, i)}})

CleanSub(re, s) == CallRewrite("CleanSubFrom", <<re, s, 1>>)

\* the substitutions of lines 80-97 in their order
CleanSteps ==
  << "wrapper", "line_comment", "block_comment", "ellipsis_array", "ellipsis_value",
     "dots", "number_dots", "non_finite", "brace_brace", "bracket_brace",
     "brace_bracket", "trailing_comma", "single_quoted", "bare_key", "quoted_null" >>

RECURSIVE CleanFrom(_, _)
CleanFrom(s, k) == IF k > Len(CleanSteps) THEN s ELSE CleanFrom(CleanSub(CleanSteps[k], s), k + 1)

_clean_json_text(candidate) == Strip(StripControls(CleanFrom(candidate, 1)))

\* _strip_wrappers of rewrite_scenes.py (line 75)
RewriteStripWrappers(s) == CleanSub("wrapper", s)

\* ------------------------------------------------------------------ Rewrite parser: scanners

\* the output of the while loop of _sanitize_inner_quotes_in_field from
\* position i on
RECURSIVE InnerQuotesFrom(_, _, _)

\* an inner loop that takes the first quote no backslash escapes for the end of
\* the value, whatever follows it
InnerQuotesValueFirstQuote(s, v, field) ==
  LET c == ClosingQuote(s, v)
  IN IF c = 0 THEN From(s, v) ELSE Slice(s, v, c) \o InnerQuotesFrom(s, c + 1, field)

\* the inner loop (lines 122-137) over the value that opens at position v - 1:
\* a quote that no backslash escapes closes the value when ',', '}' or ']'
\* follows it after white space; every other such quote gets a backslash
InnerQuotesValue(s, v, field) ==
  LET bare == {p \in v..Len(s) : s[p] = Q /\ BsRun(s, p, v) % 2 = 0}
      closes == {p \in bare : SkipWs(s, p + 1) <= Len(s)
                              /\ s[SkipWs(s, p + 1)] \in {",", "}", "]"}}
      c == IF closes = {} THEN 0 ELSE MinOf(closes)
      last == IF c = 0 THEN Len(s) ELSE c - 1
      body == Concat([k \in 1..(last - v + 1) |->
                        IF (v + k - 1) \in bare THEN <<BS, Q>> ELSE <<s[v + k - 1]>>])
  IN IF c = 0 THEN body ELSE body \o <<Q>> \o InnerQuotesFrom(s, c + 1, field)

\* one turn of the outer loop (lines 108-121): the key found at idx (0 for
\* none), j the position after the key, the colon and the white space
InnerQuotesAt(s, i, field, idx, j) ==
  IF idx = 0 THEN From(s, i)
  ELSE IF j > Len(s) \/ s[j] # Q THEN Slice(s, i, j - 1) \o InnerQuotesFrom(s, j, field)
  ELSE Slice(s, i, j) \o InnerQuotesValue(s, j + 1, field)

\* the position after  "field"\s*:?\s*  for the key found at idx
AfterKey(s, idx, field) ==
  LET a == SkipWs(s, idx + Len(field) + 2)
  IN SkipWs(s, IF a <= Len(s) /\ s[a] = ":" THEN a + 1 ELSE a)

InnerQuotesFrom(s, i, field) ==
  IF i > Len(s) THEN <<>>
  ELSE The({InnerQuotesAt(s, i, field, idx, IF idx = 0 THEN 0 ELSE AfterKey(s, idx, field)) :
             idx \in {NextWord(s, i, Quoted(field))}})

_sanitize_inner_quotes_in_field(json_like, field_key) == InnerQuotesFrom(json_like, 1, field_key)

_sanitize_problem_fields(text) ==
  CallRewrite("_sanitize_inner_quotes_in_field",
       <<CallRewrite("_sanitize_inner_quotes_in_field",
              <<CallRewrite("_sanitize_inner_quotes_in_field",
                     <<CallRewrite("_sanitize_inner_quotes_in_field", <<text, W_new_text>>),
                       W_rationale>>),
                W_reason>>),
         W_explanation>>)

\* lines 146-150: the first of { [ } ] at or after start_idx when it opens, 0
\* when it closes or there is none
SliceStart(text, start_idx) ==
  LET at == {j \in Max(start_idx, 1)..Len(text) : text[j] \in {"{", "[", "}", "]"}}
  IN IF at = {} \/ text[MinOf(at)] \in {"}", "]"} THEN 0 ELSE MinOf(at)

\* lines 151-173 from the opener at i: the for loop is the loop of
\* _balanced_slice, and the text that is never closed is returned to its end
SliceFrom(text, i, st) ==
  IF i = 0 THEN [ok |-> FALSE, lo |-> 0, hi |-> 0]
  ELSE [ok |-> TRUE, lo |-> i, hi |-> IF st.hi > 0 THEN st.hi ELSE Len(text)]

\* _balanced_json_slice_from(text, start_idx - 1): [ok, lo, hi]
_balanced_json_slice_from(text, start_idx) ==
  SliceFrom(text, SliceStart(text, start_idx),
            BalancedScan(text, [stack |-> <<>>, in_str |-> FALSE, esc |-> FALSE, hi |-> 0],
                         SliceStart(text, start_idx), Len(text)))

\* the while loop of _find_all_balanced_json_regions from idx on
RECURSIVE AllRegionsFrom(_, _)

AllRegionsAt(text, i, cand) ==
  IF cand.ok /\ cand.hi >= cand.lo
    THEN <<Slice(text, cand.lo, cand.hi)>> \o AllRegionsFrom(text, cand.hi + 1)
    ELSE AllRegionsFrom(text, i + 1)

AllRegionsFrom(text, idx) ==
  IF idx > Len(text) \/ NextOpener(text, idx) = 0 THEN <<>>
  ELSE AllRegionsAt(text, NextOpener(text, idx),
                    CallRewrite("_balanced_json_slice_from", <<text, NextOpener(text, idx)>>))

_find_all_balanced_json_regions(text) == AllRegionsFrom(text, 1)

\* lines 196-215: the loop is the loop of _autoclose
_autoclose_json(candidate) ==
  candidate \o Reverse(AutocloseScan(candidate, [stack |-> <<>>, in_str |-> FALSE, esc |-> FALSE],
                                     1, Len(candidate)).stack)

\* [ok, text]; ok is false for None.  The bodies are collected as
\* _coalesce_key_arrays collects them.
_coalesce_repeated_key_arrays_to_single_object(text, key) ==
  MergedBodies(key, CoalesceBodies(text, 1, key))

\* _try_parse_json(s) with _HAS_DEMJSON = has: Fail stands for None
_try_parse_json(s, has) == TryDemjson(s, has, Call("json.loads", s))

_score_candidate(obj) ==
  IF IsDict(obj) /\ HasKey(obj, W_rewrites) THEN 100
  ELSE IF IsDict(obj)
    THEN LET txt == Dumps(obj)
         IN (IF Contains(txt, Quoted(W_changes)) THEN 10 ELSE 0)
            + (IF Contains(txt, Quoted(W_scene_index)) /\ Contains(txt, Quoted(W_new_text))
                 THEN 10 ELSE 0)
  ELSE IF IsList(obj) THEN 50
  ELSE 0 - 1

\* ------------------------------------------------------------------ Rewrite parser: parse_llm_response_to_rewrites

\* lines 273-283
RewriteFinalCandidate(raw, e, cand) ==
  IF e > 0 /\ cand.ok /\ cand.hi >= cand.lo THEN <<Slice(raw, cand.lo, cand.hi)>> ELSE <<>>

RewriteCandidates(raw, stripped) ==
  CandidatesOr(stripped,
    RewriteFinalCandidate(raw, FinalMarkerSearch(raw),
                          CallRewrite("_balanced_json_slice_from", <<raw, FinalMarkerSearch(raw)>>))
      \o CallRewrite("_find_all_balanced_json_regions", stripped))

\* the attempts on one candidate are [ok, v, closed]
Attempt(r, closed) == [ok |-> r.ok, v |-> r.v, closed |-> closed]

\* lines 298-304: the text between the first '{' and the last '}'
ThirdAttempt(closed, has) ==
  LET first == NextChar(closed, 1, "{")
      ends == {p \in 1..Len(closed) : closed[p] = "}"}
      last == IF ends = {} THEN 0 ELSE CHOOSE p \in ends : \A q \in ends : q <= p
      sliced == CallRewrite("_autoclose_json", CallRewrite("_sanitize_problem_fields", Slice(closed, first, last)))
  IN IF first # 0 /\ last # 0 /\ last > first
       THEN LET r == CallRewrite("_try_parse_json", <<sliced, has>>)
            IN IF r.ok THEN Attempt(r, sliced) ELSE Attempt(Fail, closed)
       ELSE Attempt(Fail, closed)

\* lines 293-297: co is the outcome of the coalescing
SecondAttempt(closed, has, co) ==
  LET r == IF co.ok
             THEN CallRewrite("_try_parse_json",
                       <<CallRewrite("_autoclose_json",
                              CallRewrite("_sanitize_problem_fields", CallRewrite("_clean_json_text", co.text))),
                         has>>)
             ELSE Fail
  IN IF r.ok THEN Attempt(r, closed) ELSE ThirdAttempt(closed, has)

\* lines 292-304 for the closed text of a candidate
FirstAttempt(closed, has, r) ==
  IF r.ok THEN Attempt(r, closed)
  ELSE SecondAttempt(closed, has,
         CallRewrite("_coalesce_repeated_key_arrays_to_single_object", <<closed, W_rewrites>>))

\* lines 289-304
CandidateAttempts(c, has) ==
  LET closed == CallRewrite("_autoclose_json",
                     CallRewrite("_sanitize_problem_fields", CallRewrite("_clean_json_text", c)))
  IN FirstAttempt(closed, has, CallRewrite("_try_parse_json", <<closed, has>>))

\* lines 285-311: parsed_best after the candidates from idx on
RECURSIVE BestFrom(_, _, _, _)

BestAfter(cands, idx, best, has, a) ==
  BestFrom(cands, idx + 1,
           IF a.ok /\ CallRewrite("_score_candidate", a.v) > best.score
             THEN [score |-> CallRewrite("_score_candidate", a.v), ok |-> TRUE, obj |-> a.v]
             ELSE best,
           has)

BestFrom(cands, idx, best, has) ==
  IF idx > Len(cands) THEN best
  ELSE IF ~(Contains(cands[idx], <<"{">>) \/ Contains(cands[idx], <<"[">>))
    THEN BestFrom(cands, idx + 1, best, has)
  ELSE BestAfter(cands, idx, best, has, CallRewrite("CandidateAttempts", <<cands[idx], has>>))

\* normalized is a dict in insertion order: a sequence of [sc, chs]
SceneAt(normalized, sc) ==
  LET at == {p \in 1..Len(normalized) : PyEq(normalized[p].sc, sc)}
  IN IF at = {} THEN 0 ELSE MinOf(at)

\* normalized.setdefault(sc, []).append({"id": sid, "new_text": nt}) when the
\* three have their types, for the change ch of scene sc
AddChange(normalized, sc, ch) ==
  LET sid == Get(ch, W_id)
      nt == Get(ch, W_new_text)
      item == VDict(<<W_id, W_new_text>>, <<sid, nt>>)
      p == SceneAt(normalized, sc)
  IN IF ~(IsInt(sc) /\ IsInt(sid) /\ IsStr(nt)) THEN normalized
     ELSE IF p = 0 THEN Append(normalized, [sc |-> sc, chs |-> <<item>>])
     ELSE [normalized EXCEPT ![p].chs = Append(@, item)]

\* the loops over a list of changes that carry their own scene_index (lines
\* 319-323 and 345-349), and over the changes of one item (lines 332-336)
RECURSIVE AddOwn(_, _)
AddOwn(normalized, chs) ==
  IF chs = <<>> THEN normalized
  ELSE AddOwn(IF IsDict(Head(chs))
                THEN AddChange(normalized, Get(Head(chs), W_scene_index), Head(chs))
                ELSE normalized,
              Tail(chs))

RECURSIVE AddOf(_, _, _)
AddOf(normalized, sc, chs) ==
  IF chs = <<>> THEN normalized
  ELSE AddOf(IF IsDict(Head(chs)) THEN AddChange(normalized, sc, Head(chs)) ELSE normalized,
             sc, Tail(chs))

\* the loop over best_obj["rewrites"] (lines 328-340)
RECURSIVE AddItems(_, _)
AddItems(normalized, items) ==
  IF items = <<>> THEN normalized
  ELSE LET item == Head(items)
       IN AddItems(IF ~IsDict(item) THEN normalized
                   ELSE IF HasKey(item, W_changes) /\ IsList(Get(item, W_changes))
                     THEN AddOf(normalized, Get(item, W_scene_index), Get(item, W_changes).l)
                   ELSE AddChange(normalized, Get(item, W_scene_index), item),
                   Tail(items))

\* {"rewrites": [{"scene_index": sc, "changes": chs} for sc, chs in normalized.items()]}
RewritesOf(normalized) ==
  VDict(<<W_rewrites>>,
        <<VList([p \in 1..Len(normalized) |->
                   VDict(<<W_scene_index, W_changes>>,
                         <<normalized[p].sc, VList(normalized[p].chs)>>)])>>)

\* lines 313-352
NormalizeBest(best) ==
  IF ~best.ok THEN Unrecoverable
  ELSE IF IsList(best.obj) THEN Returned(RewritesOf(AddOwn(<<>>, best.obj.l)), "list")
  ELSE IF IsDict(best.obj) /\ HasKey(best.obj, W_rewrites) /\ IsList(Get(best.obj, W_rewrites))
    THEN Returned(RewritesOf(AddItems(<<>>, Get(best.obj, W_rewrites).l)), "rewrites")
  ELSE IF IsDict(best.obj) /\ HasKey(best.obj, W_changes) /\ IsList(Get(best.obj, W_changes))
    THEN Returned(RewritesOf(AddOwn(<<>>, Get(best.obj, W_changes).l)), "changes")
  ELSE Returned(RewritesOf(<<>>), "empty")

\* parse_llm_response_to_rewrites(raw) with _HAS_DEMJSON = has and no debug_dir
parse_llm_response_to_rewrites(raw, has) ==
  NormalizeBest(
    BestFrom(CallRewrite("RewriteCandidates", <<raw, CallRewrite("RewriteStripWrappers", raw)>>), 1,
             [score |-> 0 - 1, ok |-> FALSE, obj |-> VNull], has))

\* ------------------------------------------------------------------ Rewrite parser: _apply_rewrites_to_data

W_all_scenes == <<"a", "l", "l", "_", "s", "c", "e", "n", "e", "s">>
W_replace_sentences_id ==
  <<"r", "e", "p", "l", "a", "c", "e", "_", "s", "e", "n", "t", "e", "n", "c", "e", "s", "_", "i", "d">>
W_sentences == <<"s", "e", "n", "t", "e", "n", "c", "e", "s">>
W_text == <<"t", "e", "x", "t">>

\* bool(v) is false
Falsy(v) ==
  \/ v.t = "null"
  \/ v.t \in {"bool", "int", "float"} /\ v.n = 0
  \/ v.t = "str" /\ v.s = <<>>
  \/ v.t = "list" /\ v.l = <<>>
  \/ v.t = "dict" /\ v.k = <<>>

\* v or []
OrEmptyList(v) == IF Falsy(v) THEN VList(<<>>) ELSE v

\* hash(v) raises TypeError
Unhashable(v) == v.t \in {"list", "dict"}

\* x in set(ids)
InIds(x, ids) == \E k \in 1..Len(ids) : PyEq(ids[k], x)

\* line 432 without its first test: every change with a text is applied
ChangeAlways(s_id, new_text, replace_ids) == IsStr(new_text)

\* s_id in replace_ids and isinstance(new_text, str)  (line 432)
ChangeAllowed(s_id, new_text, replace_ids) == InIds(s_id, replace_ids) /\ IsStr(new_text)

\* lines 433-436: the first sentence with that id gets the new text
SetText(sentences, s_id, new_text) ==
  LET at == {k \in 1..Len(sentences) :
               IsDict(sentences[k]) /\ PyEq(Get(sentences[k], W_id), s_id)}
  IN IF at = {} THEN sentences
     ELSE [sentences EXCEPT ![MinOf(at)] = SetKey(@, W_text, new_text)]

\* the loop of lines 429-436 over the changes of one item: [sentences, raised];
\* raised when  s_id in replace_ids  raises TypeError, which ends the call
RECURSIVE ApplyChanges(_, _, _)
ApplyChanges(sentences, replace_ids, changes) ==
  IF changes = <<>> THEN [sentences |-> sentences, raised |-> FALSE]
  ELSE IF ~IsDict(Head(changes)) THEN ApplyChanges(sentences, replace_ids, Tail(changes))
  ELSE IF Unhashable(Get(Head(changes), W_id)) THEN [sentences |-> sentences, raised |-> TRUE]
  ELSE ApplyChanges(
         IF ChangeAllowed(Get(Head(changes), W_id), Get(Head(changes), W_new_text), replace_ids)
           THEN SetText(sentences, Get(Head(changes), W_id), Get(Head(changes), W_new_text))
           ELSE sentences,
         replace_ids, Tail(changes))

\* lines 426-438 for the scene at sc_idx: the sentence records are changed in
\* place, so they keep their new texts when the loop raises, and line 437 is
\* reached only when it does not
ApplyToScene(scene, changes) ==
  LET sentences == OrEmptyList(Get(scene, W_sentences))
      done == ApplyChanges(sentences.l, OrEmptyList(Get(scene, W_replace_sentences_id)).l, changes)
  IN [scene |-> IF done.raised
                  THEN IF HasKey(scene, W_sentences) /\ ~Falsy(Get(scene, W_sentences))
                         THEN SetKey(scene, W_sentences, VList(done.sentences)) ELSE scene
                  ELSE SetKey(scene, W_sentences, VList(done.sentences)),
      raised |-> done.raised]

\* the loop of lines 417-438 over rw_list: [scenes, raised]
RECURSIVE ApplyItems(_, _)

ApplyItem(all_scenes, item, rest) ==
  LET sc_idx == Get(item, W_scene_index)
      changes == Get(item, W_changes)
  IN IF ~IsDict(item) \/ ~IsInt(sc_idx) \/ ~IsList(changes)
          \/ sc_idx.n < 0 \/ sc_idx.n >= Len(all_scenes)
       THEN ApplyItems(all_scenes, rest)
       ELSE LET done == ApplyToScene(all_scenes[sc_idx.n + 1], changes.l)
                scenes == [all_scenes EXCEPT ![sc_idx.n + 1] = done.scene]
            IN IF done.raised THEN [scenes |-> scenes, raised |-> TRUE]
               ELSE ApplyItems(scenes, rest)

ApplyItems(all_scenes, rw_list) ==
  IF rw_list = <<>> THEN [scenes |-> all_scenes, raised |-> FALSE]
  ELSE ApplyItem(all_scenes, Head(rw_list), Tail(rw_list))

\* _apply_rewrites_to_data(data, rewrites_obj): [data, raised], data as the
\* call leaves it and raised when it ends by TypeError
_apply_rewrites_to_data(data, rewrites_obj) ==
  IF ~IsDict(rewrites_obj) \/ ~IsList(Get(rewrites_obj, W_rewrites))
    THEN [data |-> data, raised |-> FALSE]
  ELSE LET done == ApplyItems(OrEmptyList(Get(data, W_all_scenes)).l, Get(rewrites_obj, W_rewrites).l)
       IN [data |-> IF done.raised /\ Falsy(Get(data, W_all_scenes)) THEN data
                    ELSE SetKey(data, W_all_scenes, VList(done.scenes)),
           raised |-> done.raised]

\* ------------------------------------------------------------------ Stage 2 backfill (back/backend/model/pipeline.py, stage1_2.py)

W_label == <<"l", "a", "b", "e", "l">>
W_sev == <<"s", "e", "v">>
W_scr == <<"s", "c", "r">>
W_ok == <<"o", "k">>
W_suggest == <<"s", "u", "g", "g", "e", "s", "t">>
W_weapon == <<"w", "e", "a", "p", "o", "n">>
W_usage == <<"u", "s", "a", "g", "e">>
W_WEAPONS_USAGE == <<"W", "E", "A", "P", "O", "N", "S", "_", "U", "S", "A", "G", "E">>
W_WEAPONS_MENTION ==
  <<"W", "E", "A", "P", "O", "N", "S", "_", "M", "E", "N", "T", "I", "O", "N">>

\* the texts the code writes into a record, each held as one named character:
\* "Авто: базовая оценка.", "Авто: добавлено моделью." and
\* "Редактура: смягчить при необходимости."
RsnBase == <<"AUTO_BASE_SCORE">>
RsnAdded == <<"AUTO_ADDED_BY_MODEL">>
AdvSoften == <<"EDIT_SOFTEN_IF_NEEDED">>

\* LABELS (constants.py, lines 10-19)
LABELS ==
  {
    <<"V", "I", "O", "L", "E", "N", "C", "E", "_", "G", "R", "A", "P", "H", "I", "C">>,
    <<"V", "I", "O", "L", "E", "N", "C", "E", "_", "N", "O", "N", "_", "G", "R", "A", "P", "H", "I", "C">>,
    <<"M", "U", "R", "D", "E", "R", "_", "H", "O", "M", "I", "C", "I", "D", "E">>,
    <<"S", "U", "I", "C", "I", "D", "E", "_", "S", "E", "L", "F", "_", "H", "A", "R", "M">>,
    <<"S", "E", "X", "_", "E", "X", "P", "L", "I", "C", "I", "T">>,
    <<"S", "E", "X", "_", "S", "U", "G", "G", "E", "S", "T", "I", "V", "E">>,
    <<"S", "E", "X", "U", "A", "L", "_", "V", "I", "O", "L", "E", "N", "C", "E">>,
    <<"N", "U", "D", "I", "T", "Y", "_", "E", "X", "P", "L", "I", "C", "I", "T">>,
    <<"N", "U", "D", "I", "T", "Y", "_", "N", "O", "N", "S", "E", "X", "U", "A", "L">>,
    <<"D", "R", "U", "G", "S", "_", "U", "S", "E", "_", "D", "E", "P", "I", "C", "T", "I", "O", "N">>,
    <<"D", "R", "U", "G", "S", "_", "M", "E", "N", "T", "I", "O", "N", "_", "N", "O", "N", "_", "D", "E", "T", "A", "I", "L", "E", "D">>,
    <<"A", "L", "C", "O", "H", "O", "L", "_", "U", "S", "E">>,
    <<"T", "O", "B", "A", "C", "C", "O", "_", "U", "S", "E">>,
    <<"C", "R", "I", "M", "E", "_", "I", "N", "S", "T", "R", "U", "C", "T", "I", "O", "N", "S">>,
    <<"C", "R", "I", "M", "I", "N", "A", "L", "_", "A", "C", "T", "I", "V", "I", "T", "Y">>,
    <<"W", "E", "A", "P", "O", "N", "S", "_", "U", "S", "A", "G", "E">>,
    <<"W", "E", "A", "P", "O", "N", "S", "_", "M", "E", "N", "T", "I", "O", "N">>,
    <<"P", "R", "O", "F", "A", "N", "I", "T", "Y", "_", "O", "B", "S", "C", "E", "N", "E">>,
    <<"A", "B", "U", "S", "E", "_", "H", "A", "T", "E", "_", "E", "X", "T", "R", "E", "M", "I", "S", "M">>,
    <<"H", "O", "R", "R", "O", "R", "_", "F", "E", "A", "R">>,
    <<"D", "A", "N", "G", "E", "R", "O", "U", "S", "_", "I", "M", "I", "T", "A", "B", "L", "E", "_", "A", "C", "T", "S">>,
    <<"M", "E", "D", "I", "C", "A", "L", "_", "G", "O", "R", "E", "_", "D", "E", "T", "A", "I", "L", "S">>,
    <<"G", "A", "M", "B", "L", "I", "N", "G">>,
    <<"M", "I", "L", "D", "_", "C", "O", "N", "F", "L", "I", "C", "T">>,
    <<"E", "X", "T", "R", "E", "M", "I", "S", "M", "_", "P", "R", "O", "P", "A", "G", "A", "N", "D", "A">>,
    <<"N", "A", "Z", "I", "S", "M", "_", "P", "R", "O", "P", "A", "G", "A", "N", "D", "A">>,
    <<"F", "A", "S", "C", "I", "S", "M", "_", "P", "R", "O", "P", "A", "G", "A", "N", "D", "A">>
  }

\* _ALIAS_MAP (constants.py, lines 185-196): the pairs <<alias, label>>
_ALIAS_MAP ==
  <<
    <<<<"w", "e", "a", "p", "o", "n", "_", "m", "e", "n", "t", "i", "o", "n">>,
      <<"W", "E", "A", "P", "O", "N", "S", "_", "M", "E", "N", "T", "I", "O", "N">>>>,
    <<<<"w", "e", "a", "p", "o", "n", "s", "_", "m", "e", "n", "t", "i", "o", "n">>,
      <<"W", "E", "A", "P", "O", "N", "S", "_", "M", "E", "N", "T", "I", "O", "N">>>>,
    <<<<"w", "e", "a", "p", "o", "n", "m", "e", "n", "t", "i", "o", "n">>,
      <<"W", "E", "A", "P", "O", "N", "S", "_", "M", "E", "N", "T", "I", "O", "N">>>>,
    <<<<"w", "e", "a", "p", "o", "n", "_", "u", "s", "a", "g", "e">>,
      <<"W", "E", "A", "P", "O", "N", "S", "_", "U", "S", "A", "G", "E">>>>,
    <<<<"w", "e", "a", "p", "o", "n", "s", "_", "u", "s", "a", "g", "e">>,
      <<"W", "E", "A", "P", "O", "N", "S", "_", "U", "S", "A", "G", "E">>>>,
    <<<<"w", "e", "a", "p", "o", "n", "u", "s", "e">>,
      <<"W", "E", "A", "P", "O", "N", "S", "_", "U", "S", "A", "G", "E">>>>,
    <<<<"m", "u", "r", "d", "e", "r", "_", "h", "o", "m", "i", "c", "i", "d", "e">>,
      <<"M", "U", "R", "D", "E", "R", "_", "H", "O", "M", "I", "C", "I", "D", "E">>>>,
    <<<<"m", "u", "r", "d", "e", "r", "/", "h", "o", "m", "i", "c", "i", "d", "e">>,
      <<"M", "U", "R", "D", "E", "R", "_", "H", "O", "M", "I", "C", "I", "D", "E">>>>,
    <<<<"m", "u", "r", "d", "e", "r">>,
      <<"M", "U", "R", "D", "E", "R", "_", "H", "O", "M", "I", "C", "I", "D", "E">>>>,
    <<<<"h", "o", "m", "i", "c", "i", "d", "e">>,
      <<"M", "U", "R", "D", "E", "R", "_", "H", "O", "M", "I", "C", "I", "D", "E">>>>,
    <<<<"v", "i", "o", "l", "e", "n", "c", "e", "_", "g", "r", "a", "p", "h", "i", "c">>,
      <<"V", "I", "O", "L", "E", "N", "C", "E", "_", "G", "R", "A", "P", "H", "I", "C">>>>,
    <<<<"v", "i", "o", "l", "e", "n", "c", "e", "_", "n", "o", "n", "_", "g", "r", "a", "p", "h", "i", "c">>,
      <<"V", "I", "O", "L", "E", "N", "C", "E", "_", "N", "O", "N", "_", "G", "R", "A", "P", "H", "I", "C">>>>,
    <<<<"p", "r", "o", "f", "a", "n", "i", "t", "y">>,
      <<"P", "R", "O", "F", "A", "N", "I", "T", "Y", "_", "O", "B", "S", "C", "E", "N", "E">>>>,
    <<<<"n", "u", "d", "i", "t", "y", "_", "n", "o", "n", "s", "e", "x", "u", "a", "l">>,
      <<"N", "U", "D", "I", "T", "Y", "_", "N", "O", "N", "S", "E", "X", "U", "A", "L">>>>,
    <<<<"s", "e", "x", "u", "a", "l", "_", "v", "i", "o", "l", "e", "n", "c", "e">>,
      <<"S", "E", "X", "U", "A", "L", "_", "V", "I", "O", "L", "E", "N", "C", "E">>>>,
    <<<<"s", "e", "x", "_", "s", "u", "g", "g", "e", "s", "t", "i", "v", "e">>,
      <<"S", "E", "X", "_", "S", "U", "G", "G", "E", "S", "T", "I", "V", "E">>>>,
    <<<<"s", "e", "x", "_", "e", "x", "p", "l", "i", "c", "i", "t">>,
      <<"S", "E", "X", "_", "E", "X", "P", "L", "I", "C", "I", "T">>>>,
    <<<<"d", "r", "u", "g", "s", "_", "m", "e", "n", "t", "i", "o", "n", "_", "n", "o", "n", "_", "d", "e", "t", "a", "i", "l", "e", "d">>,
      <<"D", "R", "U", "G", "S", "_", "M", "E", "N", "T", "I", "O", "N", "_", "N", "O", "N", "_", "D", "E", "T", "A", "I", "L", "E", "D">>>>,
    <<<<"m", "e", "d", "i", "c", "a", "l", "_", "g", "o", "r", "e">>,
      <<"M", "E", "D", "I", "C", "A", "L", "_", "G", "O", "R", "E", "_", "D", "E", "T", "A", "I", "L", "S">>>>,
    <<<<"e", "x", "t", "r", "e", "m", "i", "s", "m">>,
      <<"E", "X", "T", "R", "E", "M", "I", "S", "M", "_", "P", "R", "O", "P", "A", "G", "A", "N", "D", "A">>>>,
    <<<<"e", "x", "t", "r", "e", "m", "i", "s", "m", "_", "p", "r", "o", "p", "a", "g", "a", "n", "d", "a">>,
      <<"E", "X", "T", "R", "E", "M", "I", "S", "M", "_", "P", "R", "O", "P", "A", "G", "A", "N", "D", "A">>>>,
    <<<<"n", "a", "z", "i", "s", "m">>,
      <<"N", "A", "Z", "I", "S", "M", "_", "P", "R", "O", "P", "A", "G", "A", "N", "D", "A">>>>,
    <<<<"f", "a", "s", "c", "i", "s", "m">>,
      <<"F", "A", "S", "C", "I", "S", "M", "_", "P", "R", "O", "P", "A", "G", "A", "N", "D", "A">>>>,
    <<<<"f", "a", "s", "c", "i", "s", "m", "_", "p", "r", "o", "p", "a", "g", "a", "n", "d", "a">>,
      <<"F", "A", "S", "C", "I", "S", "M", "_", "P", "R", "O", "P", "A", "G", "A", "N", "D", "A">>>>
  >>

\* FW_RULES["bs"] (constants.py, lines 94-121): the pairs <<label, base score>>
FW_RULES_bs ==
  <<
    <<<<"P", "R", "O", "F", "A", "N", "I", "T", "Y", "_", "O", "B", "S", "C", "E", "N", "E">>, 90>>,
    <<<<"V", "I", "O", "L", "E", "N", "C", "E", "_", "G", "R", "A", "P", "H", "I", "C">>, 90>>,
    <<<<"V", "I", "O", "L", "E", "N", "C", "E", "_", "N", "O", "N", "_", "G", "R", "A", "P", "H", "I", "C">>, 40>>,
    <<<<"M", "U", "R", "D", "E", "R", "_", "H", "O", "M", "I", "C", "I", "D", "E">>, 70>>,
    <<<<"S", "E", "X", "_", "E", "X", "P", "L", "I", "C", "I", "T">>, 90>>,
    <<<<"S", "E", "X", "_", "S", "U", "G", "G", "E", "S", "T", "I", "V", "E">>, 60>>,
    <<<<"D", "R", "U", "G", "S", "_", "U", "S", "E", "_", "D", "E", "P", "I", "C", "T", "I", "O", "N">>, 90>>,
    <<<<"D", "R", "U", "G", "S", "_", "M", "E", "N", "T", "I", "O", "N", "_", "N", "O", "N", "_", "D", "E", "T", "A", "I", "L", "E", "D">>, 45>>,
    <<<<"A", "L", "C", "O", "H", "O", "L", "_", "U", "S", "E">>, 40>>,
    <<<<"T", "O", "B", "A", "C", "C", "O", "_", "U", "S", "E">>, 35>>,
    <<<<"H", "O", "R", "R", "O", "R", "_", "F", "E", "A", "R">>, 55>>,
    <<<<"A", "B", "U", "S", "E", "_", "H", "A", "T", "E", "_", "E", "X", "T", "R", "E", "M", "I", "S", "M">>, 85>>,
    <<<<"C", "R", "I", "M", "E", "_", "I", "N", "S", "T", "R", "U", "C", "T", "I", "O", "N", "S">>, 95>>,
    <<<<"W", "E", "A", "P", "O", "N", "S", "_", "U", "S", "A", "G", "E">>, 55>>,
    <<<<"W", "E", "A", "P", "O", "N", "S", "_", "M", "E", "N", "T", "I", "O", "N">>, 35>>,
    <<<<"M", "E", "D", "I", "C", "A", "L", "_", "G", "O", "R", "E", "_", "D", "E", "T", "A", "I", "L", "S">>, 90>>,
    <<<<"N", "U", "D", "I", "T", "Y", "_", "E", "X", "P", "L", "I", "C", "I", "T">>, 85>>,
    <<<<"N", "U", "D", "I", "T", "Y", "_", "N", "O", "N", "S", "E", "X", "U", "A", "L">>, 40>>,
    <<<<"G", "A", "M", "B", "L", "I", "N", "G">>, 35>>,
    <<<<"M", "I", "L", "D", "_", "C", "O", "N", "F", "L", "I", "C", "T">>, 25>>,
    <<<<"D", "A", "N", "G", "E", "R", "O", "U", "S", "_", "I", "M", "I", "T", "A", "B", "L", "E", "_", "A", "C", "T", "S">>, 80>>,
    <<<<"S", "U", "I", "C", "I", "D", "E", "_", "S", "E", "L", "F", "_", "H", "A", "R", "M">>, 95>>,
    <<<<"C", "R", "I", "M", "I", "N", "A", "L", "_", "A", "C", "T", "I", "V", "I", "T", "Y">>, 60>>,
    <<<<"E", "X", "T", "R", "E", "M", "I", "S", "M", "_", "P", "R", "O", "P", "A", "G", "A", "N", "D", "A">>, 90>>,
    <<<<"N", "A", "Z", "I", "S", "M", "_", "P", "R", "O", "P", "A", "G", "A", "N", "D", "A">>, 95>>,
    <<<<"F", "A", "S", "C", "I", "S", "M", "_", "P", "R", "O", "P", "A", "G", "A", "N", "D", "A">>, 95>>
  >>

\* FW_RULES["th"] (constants.py, line 123): <<severity, lo, hi>>
FW_RULES_th ==
  << <<<<"N", "o", "n", "e">>, 0, 24>>,
     <<<<"M", "i", "l", "d">>, 25, 49>>,
     <<<<"M", "o", "d", "e", "r", "a", "t", "e">>, 50, 79>>,
     <<<<"S", "e", "v", "e", "r", "e">>, 80, 100>> >>

\* str.upper() and str.lower()
Upper(c) == IF c \in LowerLetters THEN UpperSeq[CHOOSE i \in 1..26 : LowerSeq[i] = c] ELSE c
UpperText(s) == [i \in 1..Len(s) |-> Upper(s[i])]
LowerText(s) == [i \in 1..Len(s) |-> Lower(s[i])]

\* x.strip().upper().replace(" ", "_")  (pipeline.py, line 290)
PipelineLabel(x) ==
  VStr([i \in 1..Len(Strip(x)) |-> IF Strip(x)[i] = " " THEN "_" ELSE Upper(Strip(x)[i])])

\* re.sub(r"[\s\-/]+", "_", s)
JoinWords(s) ==
  LET sep(c) == IsSpace(c) \/ c \in {"-", "/"}
  IN Concat([i \in 1..Len(s) |->
               IF ~sep(s[i]) THEN <<s[i]>>
               ELSE IF i = 1 \/ ~sep(s[i - 1]) THEN <<"_">> ELSE <<>>])

\* re.sub(r"[^a-z0-9_]+", "", s)
KeepLabelChars(s) == SelectSeq(s, LAMBDA c : c \in LowerLetters \cup Digits \cup {"_"})

\* lines 38-43 of normalize_label for the cleaned text s
KnownLabel(s) ==
  LET alias == {k \in 1..Len(_ALIAS_MAP) : _ALIAS_MAP[k][1] = s}
  IN IF alias # {} THEN VStr(_ALIAS_MAP[CHOOSE k \in alias : TRUE][2])
     ELSE IF UpperText(s) \in LABELS THEN VStr(UpperText(s))
     ELSE IF StartsAt(s, 1, W_weapon) /\ Contains(s, W_usage) THEN VStr(W_WEAPONS_USAGE)
     ELSE IF StartsAt(s, 1, W_weapon)
             /\ (Contains(s, <<"m", "e", "n", "t", "i", "o", "n">>)
                   \/ Contains(s, <<"s", "h", "o", "w", "n">>)
                   \/ Contains(s, <<"p", "r", "e", "s", "e", "n", "t">>))
       THEN VStr(W_WEAPONS_MENTION)
     ELSE VNull

\* normalize_label(raw) of stage1_2.py for a str (lines 35-43)
normalize_label(raw) == KnownLabel(KeepLabelChars(JoinWords(LowerText(Strip(raw)))))

\* the label of a text in the module mod ("pipeline" or "stage1_2")
LabelOfText(mod, x) == IF mod = "pipeline" THEN PipelineLabel(x) ELSE normalize_label(x)

\* _norm_label(x): a str value, or VNull for None
_norm_label(mod, x) ==
  IF IsStr(x) THEN LabelOfText(mod, x.s)
  ELSE IF IsDict(x) /\ IsStr(Get(x, W_label)) THEN LabelOfText(mod, Get(x, W_label).s)
  ELSE VNull

\* d.get(key, default)
GetOr(d, key, default) == IF HasKey(d, key) THEN Get(d, key) ELSE default

\* the record kept for the det entry d of the label lab (pipeline.py, lines 310-318)
ModelRecord(lab, d) ==
  VDict(<<W_label, W_sev, W_scr, W_rsn, W_adv, W_ok, W_suggest>>,
        <<lab, Get(d, W_sev), Get(d, W_scr), Get(d, W_rsn), Get(d, W_adv),
          GetOr(d, W_ok, VBool(TRUE)), Get(d, W_suggest)>>)

\* the loop over det (lines 306-318): labmap is a dict from labels to records
RECURSIVE LabMap(_, _, _)
LabMap(mod, det, labmap) ==
  IF det = <<>> THEN labmap
  ELSE LET d == Head(det)
           lab == _norm_label(mod, Get(d, W_label))
       IN LabMap(mod, Tail(det),
                 IF ~IsDict(d) \/ Falsy(lab) THEN labmap
                 ELSE SetKey(labmap, lab.s, ModelRecord(lab, d)))

\* model_map is a dict from (scid, sid) to a labmap: a sequence of [scid, sid,
\* labmap] in insertion order
MapIndex(model_map, scid, sid) ==
  LET at == {p \in 1..Len(model_map) :
               PyEq(model_map[p].scid, scid) /\ PyEq(model_map[p].sid, sid)}
  IN IF at = {} THEN 0 ELSE MinOf(at)

\* model_map[(scid, sid)] = labmap
MapPut(model_map, scid, sid, labmap) ==
  IF MapIndex(model_map, scid, sid) = 0
    THEN Append(model_map, [scid |-> scid, sid |-> sid, labmap |-> labmap])
    ELSE [model_map EXCEPT ![MapIndex(model_map, scid, sid)].labmap = labmap]

\* model_map.get((scid, sid), {})
MapGet(model_map, scid, sid) ==
  IF MapIndex(model_map, scid, sid) = 0 THEN VDict(<<>>, <<>>)
  ELSE model_map[MapIndex(model_map, scid, sid)].labmap

\* the loop over parsed2["ans"] (lines 298-319)
RECURSIVE ModelMapOf(_, _, _)
ModelMapOf(mod, anss, model_map) ==
  IF anss = <<>> THEN model_map
  ELSE LET ans == Head(anss)
           scid == Get(ans, W_scID)
           sid == Get(ans, W_id)
           det == GetOr(ans, W_det, VList(<<>>))
       IN ModelMapOf(mod, Tail(anss),
            IF ~IsDict(ans) \/ ~(IsInt(scid) /\ IsInt(sid)) THEN model_map
            ELSE MapPut(model_map, scid, sid,
                        LabMap(mod, IF IsList(det) THEN det.l ELSE <<>>, VDict(<<>>, <<>>))))

\* lines 296-319
ModelMap(mod, parsed2) ==
  IF IsDict(parsed2) /\ IsList(Get(parsed2, W_ans))
    THEN ModelMapOf(mod, Get(parsed2, W_ans).l, <<>>)
    ELSE <<>>

\* the labels of vlc that are not empty (lines 325-328)
Labelled(mod, vlc) ==
  SelectSeq([i \in 1..Len(vlc) |-> _norm_label(mod, vlc[i])], LAMBDA lab : ~Falsy(lab))

\* a list that keeps every occurrence: what line 330 must not be
SeenKeepAll(xs) == xs

\* line 330: the first occurrence of every label, in order
FirstSeen(xs) ==
  SelectSeq([i \in 1..Len(xs) |-> IF \E j \in 1..(i - 1) : xs[j] = xs[i] THEN VNull ELSE xs[i]],
            LAMBDA lab : lab # VNull)

\* int(FW_RULES["bs"].get(lab, 40))
BaseScore(lab) ==
  LET at == {k \in 1..Len(FW_RULES_bs) : FW_RULES_bs[k][1] = lab}
  IN IF at = {} THEN 40 ELSE FW_RULES_bs[CHOOSE k \in at : TRUE][2]

\* the conditional expression of pipeline.py, line 343
SeverityByScore(base) ==
  IF base >= 80 THEN <<"S", "e", "v", "e", "r", "e">>
  ELSE IF base >= 50 THEN <<"M", "o", "d", "e", "r", "a", "t", "e">>
  ELSE IF base >= 25 THEN <<"M", "i", "l", "d">>
  ELSE <<"N", "o", "n", "e">>

\* _severity_from_base_score(base) of stage1_2.py (lines 148-151)
_severity_from_base_score(base) ==
  LET at == {k \in 1..Len(FW_RULES_th) : FW_RULES_th[k][2] <= base /\ base <= FW_RULES_th[k][3]}
  IN IF at # {} THEN FW_RULES_th[MinOf(at)][1] ELSE SeverityByScore(base)

Severity(mod, base) ==
  IF mod = "pipeline" THEN SeverityByScore(base) ELSE _severity_from_base_score(base)

\* lines 341-353: the record of an input label, with what the model said of it
RECURSIVE Override(_, _, _)
Override(default, md, keys) ==
  IF keys = <<>> THEN default
  ELSE Override(IF Get(md, Head(keys)) # VNull THEN SetKey(default, Head(keys), Get(md, Head(keys)))
                ELSE default,
                md, Tail(keys))

InputRecord(mod, lab, mlabs) ==
  LET default == VDict(<<W_label, W_sev, W_scr, W_rsn, W_adv, W_ok, W_suggest>>,
                       <<lab, VStr(Severity(mod, BaseScore(lab.s))), VInt(BaseScore(lab.s)),
                         VStr(RsnBase), VStr(AdvSoften), VBool(TRUE), VNull>>)
  IN IF HasKey(mlabs, lab.s)
       THEN Override(default, Get(mlabs, lab.s), <<W_sev, W_scr, W_rsn, W_adv, W_ok, W_suggest>>)
       ELSE default

\* lines 365-373: the record of a label only the model named
AddedRecord(mod, lab, md) ==
  VDict(<<W_label, W_sev, W_scr, W_rsn, W_adv, W_ok, W_suggest>>,
        <<VStr(lab), GetOr(md, W_sev, VStr(Severity(mod, BaseScore(lab)))),
          GetOr(md, W_scr, VInt(BaseScore(lab))), GetOr(md, W_rsn, VStr(RsnAdded)),
          GetOr(md, W_adv, VStr(AdvSoften)), GetOr(md, W_ok, VBool(TRUE)), Get(md, W_suggest)>>)

\* det_out (lines 331-373)
DetOut(mod, in_labels, mlabs) ==
  [i \in 1..Len(in_labels) |-> InputRecord(mod, in_labels[i], mlabs)]
    \o [i \in 1..Len(SelectSeq(mlabs.k, LAMBDA lab : \A j \in 1..Len(in_labels) : in_labels[j].s # lab)) |->
          AddedRecord(mod, SelectSeq(mlabs.k, LAMBDA lab : \A j \in 1..Len(in_labels) : in_labels[j].s # lab)[i],
                      Get(mlabs, SelectSeq(mlabs.k, LAMBDA lab : \A j \in 1..Len(in_labels) : in_labels[j].s # lab)[i]))]

\* the loop over q_batch (lines 322-375)
RECURSIVE FullAns(_, _, _)
FullAns(mod, q_batch, model_map) ==
  IF q_batch = <<>> THEN <<>>
  ELSE LET q == Head(q_batch)
           scid == Get(q, W_scID)
           sid == Get(q, W_id)
           vlc == GetOr(q, W_vlc, VList(<<>>))
       IN (IF ~(IsInt(scid) /\ IsInt(sid)) THEN <<>>
           ELSE <<VDict(<<W_scID, W_id, W_det>>,
                        <<scid, sid,
                          VList(DetOut(mod, FirstSeen(Labelled(mod, vlc.l)),
                                       MapGet(model_map, scid, sid)))>>)>>)
            \o FullAns(mod, Tail(q_batch), model_map)

\* ensure_stage2_backfill(q_batch, parsed2) of the module mod
ensure_stage2_backfill(mod, q_batch, parsed2) == FullAns(mod, q_batch, ModelMap(mod, parsed2))

\* the functions by name
Apply(f, x) ==
  CASE f = "re.sub" -> Sub(x[1], x[2])
    [] f = "_strip_wrappers" -> _strip_wrappers(x)
    [] f = "_base_clean" -> _base_clean(x)
    [] f = "_replace_type_placeholders" -> _replace_type_placeholders(x)
    [] f = "_normalize_stage2_stray_segments" -> _normalize_stage2_stray_segments(x)
    [] f = "_fix_comma_issues" -> _fix_comma_issues(x)
    [] f = "_remove_strays" -> _remove_strays(x)
    [] f = "_sanitize_field_quotes" -> _sanitize_field_quotes(x[1], x[2])
    [] f = "_sanitize_text_fields" -> _sanitize_text_fields(x)
    [] f = "_autoclose" -> _autoclose(x)
    [] f = "_balanced_slice" -> _balanced_slice(x[1], x[2])
    [] f = "_find_regions" -> _find_regions(x)
    [] f = "RegionSpans" -> RegionSpans(x)
    [] f = "_coalesce_key_arrays" -> _coalesce_key_arrays(x[1], x[2])
    [] f = "_quote_unquoted_object_keys_safe" -> _quote_unquoted_object_keys_safe(x)
    [] f = "json.loads" -> json_loads(x)
    [] f = "demjson.decode" -> demjson_decode(x)
    [] f = "_try_parsers" -> _try_parsers(x[1], x[2])
    [] f = "_normalize" -> _normalize(x)
    [] f = "NormalizeRaises" -> NormalizeRaises(x)
    [] f = "_score" -> _score(x[1], x[2])
    [] f = "_fallback_extract_stage2_ans" -> _fallback_extract_stage2_ans(x[1], x[2])
    [] f = "_fallback_extract_stage0_non_neutral" -> _fallback_extract_stage0_non_neutral(x)
    [] f = "CoalesceStep" -> CoalesceStep(x[1], x[2])
    [] f = "RepairRound" -> RepairRound(x)
    [] f = "RoundsFrom" -> RoundsFrom(x[1], x[2], x[3])
    [] f = "Candidates" -> Candidates(x)
    [] f = "Select" -> Select(x[1], x[2])
    [] f = "parse_llm_response" -> parse_llm_response(x[1], x[2], x[3])

\* the functions of rewrite_scenes.py by name
ApplyRewrite(f, x) ==
  CASE f = "CleanSubFrom" -> CleanSubFrom(x[1], x[2], x[3])
    [] f = "_clean_json_text" -> _clean_json_text(x)
    [] f = "RewriteStripWrappers" -> RewriteStripWrappers(x)
    [] f = "_sanitize_inner_quotes_in_field" -> _sanitize_inner_quotes_in_field(x[1], x[2])
    [] f = "_sanitize_problem_fields" -> _sanitize_problem_fields(x)
    [] f = "_balanced_json_slice_from" -> _balanced_json_slice_from(x[1], x[2])
    [] f = "_find_all_balanced_json_regions" -> _find_all_balanced_json_regions(x)
    [] f = "_autoclose_json" -> _autoclose_json(x)
    [] f = "_coalesce_repeated_key_arrays_to_single_object" ->
         _coalesce_repeated_key_arrays_to_single_object(x[1], x[2])
    [] f = "_try_parse_json" -> _try_parse_json(x[1], x[2])
    [] f = "_score_candidate" -> _score_candidate(x)
    [] f = "RewriteCandidates" -> RewriteCandidates(x[1], x[2])
    [] f = "CandidateAttempts" -> CandidateAttempts(x[1], x[2])
    [] f = "parse_llm_response_to_rewrites" -> parse_llm_response_to_rewrites(x[1], x[2])

\* a call: the arguments are evaluated, then the function is applied to them
Call(f, x) == The({Apply(f, a) : a \in {x}})

\* a call of a function of rewrite_scenes.py
CallRewrite(f, x) == The({ApplyRewrite(f, a) : a \in {x}})

\* ------------------------------------------------------------------ inputs of a call

\* the index sets of the inputs: arrays of at most MaxLen integers of 1..MaxInt
MaxInt == 2
MaxLen == 3

\* the most closers a truncation removes
MaxCut == 3

IntArrays == UNION {[1..n -> 1..MaxInt] : n \in 0..MaxLen}

\* the arrays of at most two integers
PairArrays == {arr \in IntArrays : Len(arr) <= 2}

\* the text [a, b, c] of an array of integers, written with the separator sep
ArrayText(arr, sep) ==
  <<"[">> \o Join([i \in 1..Len(arr) |-> IntText(arr[i])], sep) \o <<"]">>

\* the text {"key":value}
ObjectText(key, value) == <<"{">> \o Quoted(key) \o <<":">> \o value \o <<"}">>

\* {"ans":[{"id":1}]}
DocAnsOne ==
  <<"{", "\"", "a", "n", "s", "\"", ":", "[", "{", "\"", "i", "d", "\"", ":", "1", "}",
    "]", "}">>

\* {"ans":[{"id":2}]}
DocAnsTwo ==
  <<"{", "\"", "a", "n", "s", "\"", ":", "[", "{", "\"", "i", "d", "\"", ":", "2", "}",
    "]", "}">>

\* {"ans":[{"id":1,"rsn":"ok"}]}
DocAnsReason ==
  <<"{", "\"", "a", "n", "s", "\"", ":", "[", "{", "\"", "i", "d", "\"", ":", "1", ",",
    "\"", "r", "s", "n", "\"", ":", "\"", "o", "k", "\"", "}", "]", "}">>

\* {"ans":[{"rsn":"a,,b"}]}
DocAnsCommas ==
  <<"{", "\"", "a", "n", "s", "\"", ":", "[", "{", "\"", "r", "s", "n", "\"", ":",
    "\"", "a", ",", ",", "b", "\"", "}", "]", "}">>

\* {"ans":[{"adv":"x: int"}]}
DocAnsType ==
  <<"{", "\"", "a", "n", "s", "\"", ":", "[", "{", "\"", "a", "d", "v", "\"", ":",
    "\"", "x", ":", " ", "i", "n", "t", "\"", "}", "]", "}">>

\* {"ans":[{"rsn":"{"}]}
DocAnsBrace ==
  <<"{", "\"", "a", "n", "s", "\"", ":", "[", "{", "\"", "r", "s", "n", "\"", ":",
    "\"", "{", "\"", "}", "]", "}">>

\* {"final_rating":"12+","explanation":"see http://x"}
DocRatingUrl ==
  <<"{", "\"", "f", "i", "n", "a", "l", "_", "r", "a", "t", "i", "n", "g", "\"", ":",
    "\"", "1", "2", "+", "\"", ",", "\"", "e", "x", "p", "l", "a", "n", "a", "t", "i",
    "o", "n", "\"", ":", "\"", "s", "e", "e", " ", "h", "t", "t", "p", ":", "/", "/",
    "x", "\"", "}">>

\* {"final_rating":"16+","explanation":"calm"}
DocRating ==
  <<"{", "\"", "f", "i", "n", "a", "l", "_", "r", "a", "t", "i", "n", "g", "\"", ":",
    "\"", "1", "6", "+", "\"", ",", "\"", "e", "x", "p", "l", "a", "n", "a", "t", "i",
    "o", "n", "\"", ":", "\"", "c", "a", "l", "m", "\"", "}">>

\* {"scene_results":[{"scID":1,"snt":[{"vlc":1}]}]}
DocSceneResults ==
  <<"{", "\"", "s", "c", "e", "n", "e", "_", "r", "e", "s", "u", "l", "t", "s", "\"",
    ":", "[", "{", "\"", "s", "c", "I", "D", "\"", ":", "1", ",", "\"", "s", "n", "t",
    "\"", ":", "[", "{", "\"", "v", "l", "c", "\"", ":", "1", "}", "]", "}", "]", "}">>

\* non_neutral indices are 3, 7, 9
ProseIndices ==
  <<"n", "o", "n", "_", "n", "e", "u", "t", "r", "a", "l", " ", "i", "n", "d", "i",
    "c", "e", "s", " ", "a", "r", "e", " ", "3", ",", " ", "7", ",", " ", "9">>

\* 
ProseEmpty ==
  <<>>

\* "scID": 1, "id": 2, "det": 3
ProseTriplet ==
  <<"\"", "s", "c", "I", "D", "\"", ":", " ", "1", ",", " ", "\"", "i", "d", "\"", ":",
    " ", "2", ",", " ", "\"", "d", "e", "t", "\"", ":", " ", "3">>

\* <|channel|>final<|message|> "ans": 1, 2
ProseMarker ==
  <<"<", "|", "c", "h", "a", "n", "n", "e", "l", "|", ">", "f", "i", "n", "a", "l",
    "<", "|", "m", "e", "s", "s", "a", "g", "e", "|", ">", " ", "\"", "a", "n", "s",
    "\"", ":", " ", "1", ",", " ", "2">>

\* rating: int // 12+
ProseType ==
  <<"r", "a", "t", "i", "n", "g", ":", " ", "i", "n", "t", " ", "/", "/", " ", "1",
    "2", "+">>

\* {"foo":1}
BlobFoo ==
  <<"{", "\"", "f", "o", "o", "\"", ":", "1", "}">>

\* {"ans":[]}{"non_neutral":["²"]}
BlobRaises ==
  <<"{", "\"", "a", "n", "s", "\"", ":", "[", "]", "}", "{", "\"", "n", "o", "n", "_",
    "n", "e", "u", "t", "r", "a", "l", "\"", ":", "[", "\"", "SUP2", "\"", "]", "}">>

\* {"final_rating":"18+"} {"ans":[1]}
BlobRatingAns ==
  <<"{", "\"", "f", "i", "n", "a", "l", "_", "r", "a", "t", "i", "n", "g", "\"", ":",
    "\"", "1", "8", "+", "\"", "}", " ", "{", "\"", "a", "n", "s", "\"", ":", "[", "1",
    "]", "}">>

\* x <|channel|>final<|message|> {"non_neutral":[2]} {"ans":[1]}
BlobMarker ==
  <<"x", " ", "<", "|", "c", "h", "a", "n", "n", "e", "l", "|", ">", "f", "i", "n",
    "a", "l", "<", "|", "m", "e", "s", "s", "a", "g", "e", "|", ">", " ", "{", "\"",
    "n", "o", "n", "_", "n", "e", "u", "t", "r", "a", "l", "\"", ":", "[", "2", "]",
    "}", " ", "{", "\"", "a", "n", "s", "\"", ":", "[", "1", "]", "}">>

\* {"k" "scID":1,"id":2,"det":[1]}
BlobTriplet ==
  <<"{", "\"", "k", "\"", " ", "\"", "s", "c", "I", "D", "\"", ":", "1", ",", "\"",
    "i", "d", "\"", ":", "2", ",", "\"", "d", "e", "t", "\"", ":", "[", "1", "]", "}">>

\* {"k" "scID":2,"id":1,"det":[1]} {"k" "scID":1,"id":2,"det":[]}
BlobTriplets ==
  <<"{", "\"", "k", "\"", " ", "\"", "s", "c", "I", "D", "\"", ":", "2", ",", "\"",
    "i", "d", "\"", ":", "1", ",", "\"", "d", "e", "t", "\"", ":", "[", "1", "]", "}",
    " ", "{", "\"", "k", "\"", " ", "\"", "s", "c", "I", "D", "\"", ":", "1", ",", "\"",
    "i", "d", "\"", ":", "2", ",", "\"", "d", "e", "t", "\"", ":", "[", "]", "}">>

\* {"k" "scID":1,"id":2,"det":[x]}
BlobTripletBad ==
  <<"{", "\"", "k", "\"", " ", "\"", "s", "c", "I", "D", "\"", ":", "1", ",", "\"",
    "i", "d", "\"", ":", "2", ",", "\"", "d", "e", "t", "\"", ":", "[", "x", "]", "}">>

\* {"non_neutral":[1,"2",2.0," 1 ","x",true]}
BlobCoerce ==
  <<"{", "\"", "n", "o", "n", "_", "n", "e", "u", "t", "r", "a", "l", "\"", ":", "[",
    "1", ",", "\"", "2", "\"", ",", "2", ".", "0", ",", "\"", " ", "1", " ", "\"", ",",
    "\"", "x", "\"", ",", "t", "r", "u", "e", "]", "}">>

\* /*c*/{"ans":[1]} // t
BlobComments ==
  <<"/", "*", "c", "*", "/", "{", "\"", "a", "n", "s", "\"", ":", "[", "1", "]", "}",
    " ", "/", "/", " ", "t">>

\* {"final_rating": string, "a": int}
BlobTypes ==
  <<"{", "\"", "f", "i", "n", "a", "l", "_", "r", "a", "t", "i", "n", "g", "\"", ":",
    " ", "s", "t", "r", "i", "n", "g", ",", " ", "\"", "a", "\"", ":", " ", "i", "n",
    "t", "}">>

\* [{"scID":1},{"scID":2}]
BlobScenes ==
  <<"[", "{", "\"", "s", "c", "I", "D", "\"", ":", "1", "}", ",", "{", "\"", "s", "c",
    "I", "D", "\"", ":", "2", "}", "]">>

\* {"ans":[{"id":1}],"ans":[{"id":2}]}
BlobTwoKeys ==
  <<"{", "\"", "a", "n", "s", "\"", ":", "[", "{", "\"", "i", "d", "\"", ":", "1", "}",
    "]", ",", "\"", "a", "n", "s", "\"", ":", "[", "{", "\"", "i", "d", "\"", ":", "2",
    "}", "]", "}">>

\* {"ans":[1]} {"x" "y"} [2,2]
BlobBroken ==
  <<"{", "\"", "a", "n", "s", "\"", ":", "[", "1", "]", "}", " ", "{", "\"", "x", "\"",
    " ", "\"", "y", "\"", "}", " ", "[", "2", ",", "2", "]">>

\* {'ans':[1]}
BlobSingleQuotes ==
  <<"{", "'", "a", "n", "s", "'", ":", "[", "1", "]", "}">>

\* {rsn: "he said "ok" then left", adv: "fix it"}
QuoteSaid ==
  <<"{", "r", "s", "n", ":", " ", "\"", "h", "e", " ", "s", "a", "i", "d", " ", "\"",
    "o", "k", "\"", " ", "t", "h", "e", "n", " ", "l", "e", "f", "t", "\"", ",", " ",
    "a", "d", "v", ":", " ", "\"", "f", "i", "x", " ", "i", "t", "\"", "}">>

\* the text of its field rsn: he said "ok" then left
QuoteSaidValue ==
  <<"h", "e", " ", "s", "a", "i", "d", " ", "\"", "o", "k", "\"", " ", "t", "h", "e",
    "n", " ", "l", "e", "f", "t">>

\* {"rsn":"a "b" c"}
QuoteRsn ==
  <<"{", "\"", "r", "s", "n", "\"", ":", "\"", "a", " ", "\"", "b", "\"", " ", "c",
    "\"", "}">>

\* the text of its field rsn: a "b" c
QuoteRsnValue ==
  <<"a", " ", "\"", "b", "\"", " ", "c">>

\* {"adv": "x"y"}
QuoteAdv ==
  <<"{", "\"", "a", "d", "v", "\"", ":", " ", "\"", "x", "\"", "y", "\"", "}">>

\* the text of its field adv: x"y
QuoteAdvValue ==
  <<"x", "\"", "y">>

\* {"explanation":"q"r s","final_rating":"6+"}
QuoteExplanation ==
  <<"{", "\"", "e", "x", "p", "l", "a", "n", "a", "t", "i", "o", "n", "\"", ":", "\"",
    "q", "\"", "r", " ", "s", "\"", ",", "\"", "f", "i", "n", "a", "l", "_", "r", "a",
    "t", "i", "n", "g", "\"", ":", "\"", "6", "+", "\"", "}">>

\* the text of its field explanation: q"r s
QuoteExplanationValue ==
  <<"q", "\"", "r", " ", "s">>

\* {"new_text":"say "hi" now"}
QuoteNewText ==
  <<"{", "\"", "n", "e", "w", "_", "t", "e", "x", "t", "\"", ":", "\"", "s", "a", "y",
    " ", "\"", "h", "i", "\"", " ", "n", "o", "w", "\"", "}">>

\* the text of its field new_text: say "hi" now
QuoteNewTextValue ==
  <<"s", "a", "y", " ", "\"", "h", "i", "\"", " ", "n", "o", "w">>

\* well-formed texts of a canonical shape
CleanDocs ==
  {DocAnsOne, DocAnsTwo, DocAnsReason, DocAnsCommas, DocAnsType, DocAnsBrace,
   DocRatingUrl, DocRating, DocSceneResults}

\* position p of a well-formed text lies inside a string literal
InString(t, p) ==
  Cardinality({j \in 1..(p - 1) : t[j] = Q /\ BsRun(t, j, 1) % 2 = 0}) % 2 = 1

\* the number of closers a well-formed text ends with
TrailingClosers(t) ==
  Len(t) - (CHOOSE j \in 0..Len(t) :
              /\ j = 0 \/ t[j] \notin {"}", "]"}
              /\ \A m \in (j + 1)..Len(t) : t[m] \in {"}", "]"})

\* the text without its last n characters
Cut(t, n) == SubSeq(t, 1, Len(t) - n)

\* the positions of the closers of a well-formed text before which a trailing
\* comma can stand: after a value, outside every string
CommaSpots(t) ==
  {p \in 2..Len(t) : t[p] \in {"}", "]"} /\ ~InString(t, p) /\ t[p - 1] \notin {"{", "[", ","}}

\* the text with a comma put before position p
WithComma(t, p) == SubSeq(t, 1, p - 1) \o <<",">> \o SubSeq(t, p, Len(t))

\* An input is [kind, shape, ref, raw]: raw is the text handed to the call, ref
\* the texts raw was made from, kind and shape how it was made.
Input(kind, shape, ref, raw) == [kind |-> kind, shape |-> shape, ref |-> ref, raw |-> raw]

CleanInputs == {Input("clean", "doc", <<t>>, t) : t \in CleanDocs}

\* a well-formed text cut short of its last n closers
CutTexts == CleanDocs \cup {ObjectText(W_non_neutral, ArrayText(arr, <<",">>)) : arr \in PairArrays}

CutInputs ==
  UNION {{Input("cut", "doc", <<t>>, Cut(t, n)) : n \in 1..Min(MaxCut, TrailingClosers(t))} :
           t \in CutTexts}

\* a well-formed text with one trailing comma
CommaInputs ==
  UNION {{Input("comma", "doc", <<t>>, WithComma(t, p)) : p \in CommaSpots(t)} : t \in CutTexts}

\* two complete objects with the same container key, one after the other
ConcatInputs ==
  {Input("concat", "doc", <<c[1], c[2]>>, c[1] \o c[2]) :
     c \in {DocAnsOne, DocAnsTwo, DocAnsReason} \X {DocAnsOne, DocAnsTwo, DocAnsReason}}

\* a free-text field with an embedded quote: ref is the field and its text
QuoteInputs ==
  {Input("quote", "doc", <<W_rsn, QuoteSaidValue>>, QuoteSaid),
   Input("quote", "doc", <<W_rsn, QuoteRsnValue>>, QuoteRsn),
   Input("quote", "doc", <<W_adv, QuoteAdvValue>>, QuoteAdv),
   Input("quote", "doc", <<W_explanation, QuoteExplanationValue>>, QuoteExplanation),
   Input("quote", "doc", <<W_new_text, QuoteNewTextValue>>, QuoteNewText)}

\* an index set in each of the forms the parser takes it in; ref is the array
IndexShapes == {"non_neutral", "nn", "scene_indices", "bare", "prose", "pattern_b"}

IndexText(shape, arr) ==
  CASE shape = "non_neutral" -> ObjectText(W_non_neutral, ArrayText(arr, <<",">>))
    [] shape = "nn" -> ObjectText(W_nn, ArrayText(arr, <<",">>))
    [] shape = "scene_indices" -> ObjectText(W_scene_indices, ArrayText(arr, <<",", " ">>))
    [] shape = "bare" -> ArrayText(arr, <<",", " ">>)
    [] shape = "prose" -> <<"i", "d", "x", " ">> \o ArrayText(arr, <<",">>) \o <<" ", "o", "k">>
    [] shape = "pattern_b" -> <<"{", "k", " ", Q, "q", " ">> \o ArrayText(arr, <<",", " ">>)

\* the forms that are given every array; the other forms are given the arrays
\* of at most two integers
LongShapes == {"nn", "pattern_b"}

IndexInputs ==
  {Input("index", c[1], <<ArrayText(c[2], <<",">>)>>, IndexText(c[1], c[2])) :
     c \in (LongShapes \X IntArrays) \cup ((IndexShapes \ LongShapes) \X PairArrays)}

\* prose: no brace and no bracket
ProseInputs ==
  {Input("prose", "doc", <<>>, t) :
     t \in {ProseIndices, ProseEmpty, ProseTriplet, ProseMarker, ProseType}}
  \cup {Input("prose", "list", <<>>, <<"i", "d", "x", " ">> \o Join([i \in 1..Len(arr) |-> IntText(arr[i])], <<",", " ">>)) :
          arr \in PairArrays}

\* blobs of several candidates, and texts only a fallback recovers
BlobInputs ==
  {Input("blob", "doc", <<>>, t) :
     t \in {BlobFoo, BlobRaises, BlobRatingAns, BlobMarker, BlobTriplet, BlobCoerce,
            BlobComments, BlobTypes, BlobScenes, BlobTwoKeys, BlobBroken, BlobSingleQuotes,
            BlobTriplets, BlobTripletBad}}

\* <|channel|>final<|message|>
FinalMarker == W_channel \o W_final \o W_message

\* a text, the final-channel marker and a second text; ref holds the two texts
MarkerInputs ==
  {Input("marker", "doc", <<c[1], c[2]>>, c[1] \o FinalMarker \o c[2]) :
     c \in {<<>>, DocAnsOne, DocRating} \X {DocAnsTwo, BlobRaises, ProseEmpty}}

Inputs ==
  CleanInputs \cup CutInputs \cup CommaInputs \cup ConcatInputs \cup QuoteInputs
    \cup IndexInputs \cup ProseInputs \cup BlobInputs \cup MarkerInputs

\* the values of the prefer argument: None, "ans" and "non_neutral"
Prefers == {<<>>, W_ans, W_non_neutral}

\* ------------------------------------------------------------------ the debug sink

\* the debug_dir argument of the calls that are given one
W_debug == <<"d", "b", "g">>

\* the name of a dumped file: candidate_ok_{idx}.json is FileName("candidate_ok", idx)
FileName(base, n) == [base |-> base, n |-> n]

\* the content handed to _maybe_dump: a text, or a decoded object dumped as JSON
TextContent(t) == [json |-> FALSE, text |-> t, obj |-> VNull]
JsonContent(v) == [json |-> TRUE, text |-> <<>>, obj |-> v]

\* lines 17-22: the directory is made and the file written over; on a disk that
\* fails an OSError is raised instead
WriteFile(fs, dsk, fname, content) ==
  IF dsk = "failing"
    THEN [files |-> fs, raised |-> TRUE]
    ELSE [files |-> {f \in fs : f.name # fname} \cup {[name |-> fname, content |-> content]},
          raised |-> FALSE]

\* the write w without the try around it: its exception leaves _maybe_dump
DumpUncaught(w) == w

\* the try of lines 16-24 around the write w: the exception is swallowed
DumpTried(w) == [files |-> w.files, raised |-> FALSE]

\* _maybe_dump(ddir, fname, content) on the files fs of a disk in the state
\* dsk: the files after the call, and whether an exception left the call
_maybe_dump(ddir, fname, content, fs, dsk) ==
  IF ddir = <<>> THEN [files |-> fs, raised |-> FALSE]
  ELSE DumpTried(WriteFile(fs, dsk, fname, content))

\* the outcome of a call that an exception of _maybe_dump left
DumpError == [kind |-> "dump_error", v |-> VNull, by |-> "raise"]

\* the inputs of the calls that are given a debug directory
SinkInputs == CleanInputs \cup BlobInputs \cup {i \in ProseInputs : i.shape = "doc"}

\* ------------------------------------------------------------------ one call of parse_llm_response

VARIABLES
  input,        \* the input of the call; input.raw is the argument raw
  prefer,       \* the argument prefer (the empty text for None)
  debug_dir,    \* the argument debug_dir (the empty text for None)
  has_demjson,  \* _HAS_DEMJSON, set when the module is imported
  disk,         \* whether the writes to the debug directory succeed
  files,        \* the files of the debug directory
  pc,           \* where the call stands
  stripped,     \* line 320
  candidates,   \* lines 321-328
  idx,          \* the candidate the loop of line 331 is at (from 1)
  round,        \* _round, the rounds of this candidate that failed so far
  repaired,     \* the text of the candidate after the repairs so far
  parsed_list,  \* line 330
  outcome,      \* what the call returned or raised
  waiting       \* the call of another thread that waits for the interpreter

\* a call of one of the other functions
VARIABLES
  fn,           \* the function called
  arg,          \* its argument
  res,          \* what it returned
  fpc           \* "call" before the call, "done" after it, "none" when there is none

vars ==
  <<input, prefer, debug_dir, has_demjson, disk, files, pc, stripped, candidates, idx,
    round, repaired, parsed_list, outcome, waiting, fn, arg, res, fpc>>

\* no other function is called
NoFn == fn = "" /\ arg = <<>> /\ res = <<>> /\ fpc = "none"

\* what no step of a call changes: its arguments, the environment it runs in,
\* the call that waits and the calls of the other functions
args == <<input, prefer, debug_dir, has_demjson, disk, waiting, fn, arg, res, fpc>>

\* the frame of a call: its arguments and its local variables
NewFrame(inp, pref, ddir) ==
  [input |-> inp, prefer |-> pref, debug_dir |-> ddir, pc |-> "start", stripped |-> <<>>,
   candidates |-> <<>>, idx |-> 0, round |-> 0, repaired |-> <<>>, parsed_list |-> <<>>,
   outcome |-> Running]

\* no call waits
NoCall == [NewFrame(Input("none", "none", <<>>, <<>>), <<>>, <<>>) EXCEPT !.pc = "none"]

Init ==
  /\ input \in Inputs
  /\ prefer \in Prefers
  /\ debug_dir \in (IF input \in SinkInputs THEN {<<>>, W_debug} ELSE {<<>>})
  /\ has_demjson \in BOOLEAN
  /\ disk \in (IF debug_dir = <<>> THEN {"writable"} ELSE {"writable", "failing"})
  /\ files = {}
  /\ pc = "start"
  /\ stripped = <<>>
  /\ candidates = <<>>
  /\ idx = 0
  /\ round = 0
  /\ repaired = <<>>
  /\ parsed_list = <<>>
  /\ outcome = Running
  /\ waiting = NoCall
  /\ NoFn

\* the dump d of a step: its files are kept, and an exception that left it
\* leaves the call too
Dumped(d) == files' = d.files /\ (d.raised => pc' = "raised" /\ outcome' = DumpError)

\* lines 319-328: dump the raw text, clean it and extract the candidates
Extract ==
  /\ pc = "start"
  /\ LET d == _maybe_dump(debug_dir, FileName("raw.txt", 0), TextContent(input.raw), files, disk)
     IN /\ Dumped(d)
        /\ IF d.raised THEN UNCHANGED <<stripped, candidates, idx>>
           ELSE /\ stripped' = Call("_base_clean", input.raw)
                /\ candidates' = Call("Candidates", input.raw)
                /\ idx' = 1
                /\ pc' = "candidate"
                /\ UNCHANGED outcome
  /\ UNCHANGED <<args, round, repaired, parsed_list>>

\* lines 331-334: the loop takes the next candidate
NextCandidate ==
  /\ pc = "candidate"
  /\ idx <= Len(candidates)
  /\ repaired' = Call("_base_clean", candidates[idx])
  /\ round' = 0
  /\ pc' = "round"
  /\ UNCHANGED <<args, files, stripped, candidates, idx, parsed_list, outcome>>

\* lines 351-352: the decoded candidate is dumped and the loop goes on
DecodedDumped(obj) ==
  LET d == _maybe_dump(debug_dir, FileName("candidate_ok", idx - 1), JsonContent(obj), files, disk)
  IN /\ Dumped(d)
     /\ IF d.raised THEN UNCHANGED idx
        ELSE idx' = idx + 1 /\ pc' = "candidate" /\ UNCHANGED outcome

\* lines 336-352: one round of repairs, the decode and, when it decodes, the
\* normalization, the scoring and the dump of the candidate
RepairAndDecode ==
  /\ pc = "round"
  /\ round < MaxRounds
  /\ LET text == Call("RepairRound", repaired)
         d == Call("_try_parsers", <<text, has_demjson>>)
     IN /\ repaired' = text
        /\ IF ~d.ok
             THEN /\ round' = round + 1
                  /\ UNCHANGED <<pc, idx, parsed_list, outcome, files>>
           ELSE IF Call("NormalizeRaises", d.v)
             THEN /\ pc' = "raised"
                  /\ outcome' = OtherError
                  /\ UNCHANGED <<round, idx, parsed_list, files>>
           ELSE /\ parsed_list' = Append(parsed_list, Entry(Call("_normalize", d.v), prefer, text))
                /\ DecodedDumped(Call("_normalize", d.v))
                /\ UNCHANGED round
  /\ UNCHANGED <<args, stripped, candidates>>

\* lines 353-354: no round decoded the candidate; its text is dumped
CandidateFails ==
  /\ pc = "round"
  /\ round = MaxRounds
  /\ LET d == _maybe_dump(debug_dir, FileName("candidate_fail", idx - 1), TextContent(repaired), files, disk)
     IN /\ Dumped(d)
        /\ IF d.raised THEN UNCHANGED idx
           ELSE idx' = idx + 1 /\ pc' = "candidate" /\ UNCHANGED outcome
  /\ UNCHANGED <<args, stripped, candidates, round, repaired, parsed_list>>

\* line 356: the loop is over
LoopDone ==
  /\ pc = "candidate"
  /\ idx > Len(candidates)
  /\ pc' = IF parsed_list = <<>> THEN "pattern_a" ELSE "select"
  /\ UNCHANGED <<args, files, stripped, candidates, idx, round, repaired, parsed_list, outcome>>

\* the value v is dumped into the file fname and returned by the statement by
DumpAndReturn(fname, v, by) ==
  LET d == _maybe_dump(debug_dir, FileName(fname, 0), JsonContent(v), files, disk)
  IN /\ Dumped(d)
     /\ ~d.raised => pc' = "returned" /\ outcome' = Returned(v, by)

\* lines 357-361
PatternA ==
  /\ pc = "pattern_a"
  /\ LET fb2 == Call("_fallback_extract_stage2_ans", <<stripped, has_demjson>>)
     IN IF ~fb2.ok
          THEN pc' = "pattern_b" /\ UNCHANGED <<outcome, files>>
        ELSE IF Call("NormalizeRaises", fb2.v)
          THEN pc' = "raised" /\ outcome' = OtherError /\ UNCHANGED files
        ELSE DumpAndReturn("fallback_stage2_ans.json", Call("_normalize", fb2.v), "pattern_a")
  /\ UNCHANGED <<args, stripped, candidates, idx, round, repaired, parsed_list>>

\* lines 362-366
PatternB ==
  /\ pc = "pattern_b"
  /\ LET fb0 == Call("_fallback_extract_stage0_non_neutral", stripped)
     IN IF fb0.ok
          THEN DumpAndReturn("fallback_stage0_non_neutral.json", fb0.v, "pattern_b")
          ELSE pc' = "raised" /\ outcome' = Unrecoverable /\ UNCHANGED files
  /\ UNCHANGED <<args, stripped, candidates, idx, round, repaired, parsed_list>>

\* lines 368-376
SelectBest ==
  /\ pc = "select"
  /\ DumpAndReturn("chosen.json", Call("Select", <<parsed_list, prefer>>), "select")
  /\ UNCHANGED <<args, stripped, candidates, idx, round, repaired, parsed_list>>

\* ------------------------------------------------------------------ two calls in two threads

\* the frame of the call that runs
Frame ==
  [input |-> input, prefer |-> prefer, debug_dir |-> debug_dir, pc |-> pc,
   stripped |-> stripped, candidates |-> candidates, idx |-> idx, round |-> round,
   repaired |-> repaired, parsed_list |-> parsed_list, outcome |-> outcome]

\* parsed_list is a module-level list that the calls share: the call that
\* resumes finds what the other call left in it
ResumedSharingList(f, other) == [f EXCEPT !.parsed_list = other.parsed_list]

\* the frame a call resumes with, f being the frame it was suspended with and
\* other the frame of the call that ran meanwhile: the arguments and the
\* variables assigned in lines 318-376 are all local to the call
Resumed(f, other) == f

\* the interpreter switches threads between two steps: the running call is
\* suspended and the waiting call runs; the files, the disk and _HAS_DEMJSON
\* belong to the process
Switch ==
  /\ waiting.pc # "none"
  /\ LET f == Resumed(waiting, Frame)
     IN /\ input' = f.input
        /\ prefer' = f.prefer
        /\ debug_dir' = f.debug_dir
        /\ pc' = f.pc
        /\ stripped' = f.stripped
        /\ candidates' = f.candidates
        /\ idx' = f.idx
        /\ round' = f.round
        /\ repaired' = f.repaired
        /\ parsed_list' = f.parsed_list
        /\ outcome' = f.outcome
  /\ waiting' = Frame
  /\ UNCHANGED <<has_demjson, disk, files, fn, arg, res, fpc>>

Next ==
  \/ Extract
  \/ NextCandidate
  \/ RepairAndDecode
  \/ CandidateFails
  \/ LoopDone
  \/ PatternA
  \/ PatternB
  \/ SelectBest

Spec == Init /\ [][Next]_vars

\* the calls that run in two threads: a text and the prefer argument
ParCalls ==
  {<<Input("clean", "doc", <<DocAnsOne>>, DocAnsOne), <<>>>>,
   <<Input("clean", "doc", <<DocRating>>, DocRating), <<>>>>,
   <<Input("blob", "doc", <<>>, BlobRatingAns), W_ans>>,
   <<Input("index", "pattern_b", <<ArrayText(<<2, 1>>, <<",">>)>>, IndexText("pattern_b", <<2, 1>>)),
     W_non_neutral>>}

\* two threads each make one call, with the same debug directory
InitPar ==
  /\ \E a \in ParCalls, b \in ParCalls :
       /\ input = a[1]
       /\ prefer = a[2]
       /\ waiting = NewFrame(b[1], b[2], W_debug)
  /\ debug_dir = W_debug
  /\ has_demjson = FALSE
  /\ disk = "writable"
  /\ files = {}
  /\ pc = "start"
  /\ stripped = <<>>
  /\ candidates = <<>>
  /\ idx = 0
  /\ round = 0
  /\ repaired = <<>>
  /\ parsed_list = <<>>
  /\ outcome = Running
  /\ NoFn

NextPar == Next \/ Switch

SpecPar == InitPar /\ [][NextPar]_vars

\* ------------------------------------------------------------------ calls of the other functions

\* the texts of at most n characters of the set A
Texts(A, n) == UNION {[1..k -> A] : k \in 0..n}

\* the longest text handed to a scanner
MaxTextLen == 4

\* the characters of the texts handed to _find_regions
RegionChars == {"{", "}", "[", "]", Q, BS, "a"}

\* the characters of the texts handed to _quote_unquoted_object_keys_safe
KeyTextChars == {"{", ",", ":", Q, BS, "a", " "}

\* no call of parse_llm_response is made
NoParse ==
  /\ input = Input("none", "none", <<>>, <<>>)
  /\ prefer = <<>>
  /\ debug_dir = <<>>
  /\ has_demjson = FALSE
  /\ disk = "writable"
  /\ files = {}
  /\ pc = "none"
  /\ stripped = <<>>
  /\ candidates = <<>>
  /\ idx = 0
  /\ round = 0
  /\ repaired = <<>>
  /\ parsed_list = <<>>
  /\ outcome = Running
  /\ waiting = NoCall

\* the variables of the call of parse_llm_response
parse_vars ==
  <<input, prefer, debug_dir, has_demjson, disk, files, pc, stripped, candidates, idx,
    round, repaired, parsed_list, outcome, waiting>>

\* the function f is about to be called with an argument of the set A
CallOf(f, A) == fn = f /\ arg \in A /\ res = <<>> /\ fpc = "call" /\ NoParse

\* the function f is called and returns r
Returns(f, r) ==
  /\ fpc = "call"
  /\ fn = f
  /\ res' = r
  /\ fpc' = "done"
  /\ UNCHANGED <<fn, arg, parse_vars>>

\* the call of the function f is over
Called(f) == fn = f /\ fpc = "done"

\* _find_regions(arg), the regions as [lo, hi] pairs of positions of arg
FindRegions == Returns("_find_regions", Call("RegionSpans", arg))

\* _quote_unquoted_object_keys_safe(arg)
QuoteKeys == Returns("_quote_unquoted_object_keys_safe", Call("_quote_unquoted_object_keys_safe", arg))

InitText ==
  \/ CallOf("_find_regions", Texts(RegionChars, MaxTextLen))
  \/ CallOf("_quote_unquoted_object_keys_safe", Texts(KeyTextChars, MaxTextLen))

NextText == FindRegions \/ QuoteKeys

SpecText == InitText /\ [][NextText]_vars

\* ------------------------------------------------------------------ calls of the repair functions

\* the longest value of a field handed to _sanitize_inner_quotes_in_field
MaxValueLen == 4

\* the characters of the values
ValueChars == {Q, BS, ",", "}", " ", "a"}

\* a text up to the opening quote of the value of the field: {"reason":" and
\* {"new_text" : "
OpenField(field) ==
  <<"{">> \o Quoted(field) \o (IF field = W_new_text THEN <<" ", ":", " ">> ELSE <<":">>) \o <<Q>>

\* the texts handed to _sanitize_inner_quotes_in_field, each with its field
FieldTexts ==
  {<<OpenField(field) \o w, field>> : field \in {W_reason, W_new_text}, w \in Texts(ValueChars, MaxValueLen)}

\* _sanitize_inner_quotes_in_field(arg[1], arg[2])
SanitizeInnerQuotes ==
  Returns("_sanitize_inner_quotes_in_field", _sanitize_inner_quotes_in_field(arg[1], arg[2]))

\* the most elements of an array handed to the coalescers
MaxElems == 2

\* the elements of the arrays: a number, an object, a string that holds a
\* bracket, and an array
ElemTexts ==
  { <<"1">>, ObjectText(W_id, <<"2">>), <<Q, "]", Q>>, <<"[", "1", "]">> }

ElemArrays == UNION {[1..n -> ElemTexts] : n \in 0..MaxElems}

\* {"key":[e1,e2]}
KeyArrayText(key, elems) == ObjectText(key, <<"[">> \o Join(elems, <<",">>) \o <<"]">>)

\* the texts handed to a coalescer, with the key and the arrays they are made
\* of: one object, two objects one after the other, and two objects of which
\* the first has lost its closers
CoalesceTexts(key) ==
  {<<KeyArrayText(key, a), key, <<a>>, FALSE>> : a \in ElemArrays}
    \cup {<<KeyArrayText(key, c[1]) \o KeyArrayText(key, c[2]), key, <<c[1], c[2]>>, FALSE>> :
            c \in ElemArrays \X ElemArrays}
    \cup {<<Cut(KeyArrayText(key, a), 2) \o KeyArrayText(key, <<<<"1">>>>), key, <<a, <<<<"1">>>>>>, TRUE>> :
            a \in {e \in ElemArrays : Len(e) <= 1}}

\* _coalesce_key_arrays(arg[1], arg[2]) of parser_llm.py
CoalesceKeyArrays ==
  Returns("_coalesce_key_arrays", Call("_coalesce_key_arrays", <<arg[1], arg[2]>>))

\* _coalesce_repeated_key_arrays_to_single_object(arg[1], arg[2]) of rewrite_scenes.py
CoalesceRepeatedKeyArrays ==
  Returns("_coalesce_repeated_key_arrays_to_single_object",
          CallRewrite("_coalesce_repeated_key_arrays_to_single_object", <<arg[1], arg[2]>>))

\* the characters of the texts handed to _base_clean
CleanChars == {"<", "|", ">", "/", "*", "NUL", "a"}

\* _base_clean(arg)
BaseClean == Returns("_base_clean", Call("_base_clean", arg))

\* _autoclose(arg)
Autoclose == Returns("_autoclose", Call("_autoclose", arg))

InitRepair ==
  \/ CallOf("_sanitize_inner_quotes_in_field", FieldTexts)
  \/ CallOf("_autoclose", Texts(RegionChars, MaxTextLen))
  \/ CallOf("_base_clean", Texts(CleanChars, MaxTextLen))
  \/ CallOf("_coalesce_key_arrays", CoalesceTexts(W_ans))
  \/ CallOf("_coalesce_repeated_key_arrays_to_single_object", CoalesceTexts(W_rewrites))

NextRepair ==
  \/ SanitizeInnerQuotes
  \/ CoalesceKeyArrays
  \/ CoalesceRepeatedKeyArrays
  \/ BaseClean
  \/ Autoclose

SpecRepair == InitRepair /\ [][NextRepair]_vars

\* ------------------------------------------------------------------ calls of the rewrite parser

\* the most items of a rewrites list, and the most changes of one item
MaxItems == 2
MaxChanges == 2

\* the sequences of at most n elements of the set A
SeqsUpTo(A, n) == UNION {[1..k -> A] : k \in 0..n}

\* sentences a model may write: plain ones, and ones that hold an ellipsis, a
\* comma before a brace, apostrophes, a quotation, a number and its full stop,
\* a colon after a word, the word NaN
\* and an address
NewTexts ==
  { <<"a">>, <<"b">>,
    <<"W", "a", "i", "t", ".", ".", ".">>,
    <<"a", ",", " ", "}">>,
    <<"'", "o", "k", "'">>,
    <<"a", " ", Q, "b", Q>>,
    <<"1", ".", " ", "x">>,
    <<"a", " ", "k", ":", " ", "v">>,
    <<"N", "a", "N">>,
    <<"h", ":", "/", "/", "x">> }

\* {"id": j, "new_text": t} and {"scene_index": i, "changes": [...]}
Change(j, t) == VDict(<<W_id, W_new_text>>, <<VInt(j), VStr(t)>>)
SceneItem(i, chs) == VDict(<<W_scene_index, W_changes>>, <<VInt(i), VList(chs)>>)
Rewrites(items) == VDict(<<W_rewrites>>, <<VList(items)>>)

\* the changes 1..n of an item, with ids counted from j0 and plain sentences
PlainChanges(j0, n) == [k \in 1..n |-> Change(j0 + k, IF k % 2 = 1 THEN <<"a">> ELSE <<"b">>)]

\* the rewrites objects whose text is handed to the parser: one change with
\* every sentence, and lists of items of the scenes 0 and 1 with plain changes
WellFormedRewrites ==
  {Rewrites(<<SceneItem(i, <<Change(1, t)>>)>>) : i \in {0, 1}, t \in NewTexts}
    \cup {Rewrites([p \in 1..Len(q) |-> SceneItem(q[p][1], PlainChanges(10 * p, q[p][2]))]) :
            q \in SeqsUpTo({0, 1} \X (0..MaxChanges), MaxItems)}

\* the well-formed texts: json.dumps of the objects
WellFormedTexts == {Dumps(v) : v \in WellFormedRewrites}

\* parse_llm_response_to_rewrites(arg[1]) with _HAS_DEMJSON = arg[2]
ParseRewrites ==
  Returns("parse_llm_response_to_rewrites", CallRewrite("parse_llm_response_to_rewrites", arg))

InitRewrites == CallOf("parse_llm_response_to_rewrites", WellFormedTexts \X BOOLEAN)

NextRewrites == ParseRewrites

SpecRewrites == InitRewrites /\ [][NextRewrites]_vars

\* ------------------------------------------------------------------ calls of _apply_rewrites_to_data

\* {"id": j, "text": "s<k>"}: the k-th sentence of a scene
Sentence(j, k) == VDict(<<W_id, W_text>>, <<VInt(j), VStr(<<"s", DigitChar(k)>>)>>)

\* a scene of the sentences with the ids js, of which the ids rs are to be replaced
Scene(js, rs) ==
  VDict(<<W_replace_sentences_id, W_sentences>>,
        <<VList([k \in 1..Len(rs) |-> VInt(rs[k])]),
          VList([k \in 1..Len(js) |-> Sentence(js[k], k)])>>)

\* the scenes of the data: two sentences of which one, none or both are
\* listed, two sentences of the same id, and no sentence at all
Scenes ==
  { Scene(<<0, 1>>, <<1>>), Scene(<<0, 1>>, <<>>), Scene(<<0, 1>>, <<0, 1>>),
    Scene(<<1, 0>>, <<0>>), Scene(<<1, 1>>, <<1>>), Scene(<<>>, <<1>>) }

DataOf(scenes) == VDict(<<W_all_scenes>>, <<VList(scenes)>>)

\* the data: one scene, or a scene and a second one after it
Datas ==
  {DataOf(<<a>>) : a \in Scenes} \cup {DataOf(<<a, Scene(<<0, 1>>, <<1>>)>>) : a \in Scenes}

\* what a model may write as one change: the id an integer, true, a list (which
\* cannot be hashed) or missing; the text a string or null; and no object
ModelChanges ==
  {VDict(<<W_id, W_new_text>>, <<j, t>>) :
     j \in {VInt(0), VInt(1), VBool(TRUE), VList(<<VInt(1)>>)}, t \in {VStr(<<"x">>), VNull}}
    \cup {VDict(<<W_id, W_new_text>>, <<VInt(1), VStr(<<"y">>)>>), VInt(5)}

\* what it may write as a scene index
ModelSceneIndexes == {VInt(0 - 1), VInt(0), VInt(1), VBool(TRUE), VStr(<<"0">>)}

\* the rewrites objects: one item of at most MaxChanges changes, two items of
\* one change each, and objects that are no rewrites at all
ModelRewrites ==
  {Rewrites(<<VDict(<<W_scene_index, W_changes>>, <<i, VList(chs)>>)>>) :
     i \in ModelSceneIndexes, chs \in SeqsUpTo(ModelChanges, MaxChanges)}
    \cup {Rewrites(<<SceneItem(i, <<Change(1, <<"x">>)>>), SceneItem(j, <<Change(1, <<"y">>)>>)>>) :
            i \in {0, 1}, j \in {0, 1}}
    \cup { VNull, VList(<<>>), VDict(<<W_rewrites>>, <<VNull>>),
           Rewrites(<<VInt(5)>>),
           Rewrites(<<VDict(<<W_scene_index, W_changes>>, <<VInt(0), VNull>>)>>) }

\* _apply_rewrites_to_data(arg[1], arg[2])
ApplyRewrites ==
  Returns("_apply_rewrites_to_data", _apply_rewrites_to_data(arg[1], arg[2]))

InitApply == CallOf("_apply_rewrites_to_data", Datas \X ModelRewrites)

NextApply == ApplyRewrites

SpecApply == InitApply /\ [][NextApply]_vars

\* ------------------------------------------------------------------ calls of ensure_stage2_backfill

\* the most labels of a query, and the most det entries of an answer
MaxLabels == 2
MaxDet == 2

L_GAMBLING == <<"G", "A", "M", "B", "L", "I", "N", "G">>
L_ALCOHOL_USE == <<"A", "L", "C", "O", "H", "O", "L", "_", "U", "S", "E">>
L_TOBACCO_USE == <<"T", "O", "B", "A", "C", "C", "O", "_", "U", "S", "E">>

\* a query of the batch (pipeline.py, line 761): vlc holds labels of LABELS
Query(scid, sid, vlc) == VDict(<<W_scID, W_id, W_vlc>>, <<scid, sid, VList(vlc)>>)

\* the label lists of a query: labels of LABELS, a label may come twice
LabelLists ==
  SeqsUpTo({VStr(L_GAMBLING), VStr(L_ALCOHOL_USE)}, MaxLabels)
    \cup {<<VDict(<<W_label>>, <<VStr(L_GAMBLING)>>), VStr(L_GAMBLING)>>}

\* the batches: one query, two queries, and a query whose scID is no integer
\* before one that has one
Batches ==
  {<<Query(VInt(0), VInt(0), vlc)>> : vlc \in LabelLists}
    \cup {<<Query(VInt(0), VInt(0), vlc), Query(VInt(0), VInt(1), <<VStr(L_GAMBLING)>>)>> :
            vlc \in LabelLists}
    \cup {<<Query(VNull, VInt(0), <<VStr(L_GAMBLING)>>), Query(VInt(0), VInt(0), <<VStr(L_ALCOHOL_USE)>>)>>}

\* a det entry with the label x and a severity
DetEntry(x) == VDict(<<W_label, W_sev>>, <<x, VStr(<<"M", "i", "l", "d">>)>>)

\* what a model may write as a det entry: a label of the query, the same in
\* small letters, another label, a label no list knows, a label inside an
\* object, no label, and no object
DetEntries ==
  { DetEntry(VStr(L_GAMBLING)), DetEntry(VStr(LowerText(L_GAMBLING))),
    DetEntry(VStr(L_TOBACCO_USE)), DetEntry(VStr(<<"x", "x">>)),
    DetEntry(VDict(<<W_label>>, <<VStr(L_ALCOHOL_USE)>>)), DetEntry(VNull), VInt(5) }

\* an entry of ans
Answer(scid, sid, det) == VDict(<<W_scID, W_id, W_det>>, <<scid, sid, det>>)

\* the answers to the query (0, 0): det a list, or no list
Answers ==
  {Answer(VInt(0), VInt(0), VList(det)) : det \in SeqsUpTo(DetEntries, MaxDet)}
    \cup {Answer(VInt(0), VInt(0), VNull), VDict(<<W_scID, W_id>>, <<VInt(0), VInt(0)>>)}

\* the answers with at most one det entry
ShortAnswers == {a \in Answers : IsList(Get(a, W_det)) => Len(Get(a, W_det).l) <= 1}

\* what may follow an answer: a second answer to the same query, an answer to
\* the other query, an answer whose scID is a string, and a stray label
Followers ==
  { Answer(VInt(0), VInt(0), VList(<<DetEntry(VStr(L_TOBACCO_USE))>>)),
    Answer(VInt(0), VInt(1), VList(<<DetEntry(VStr(L_ALCOHOL_USE))>>)),
    Answer(VStr(<<"0">>), VInt(0), VList(<<DetEntry(VStr(L_TOBACCO_USE))>>)),
    VStr(L_TOBACCO_USE) }

\* parsed2: None, an object without ans, ans no list, and lists of answers
Parsed2s ==
  {VNull, VDict(<<>>, <<>>), VDict(<<W_ans>>, <<VNull>>), VDict(<<W_ans>>, <<VList(<<>>)>>)}
    \cup {VDict(<<W_ans>>, <<VList(<<a>>)>>) : a \in Answers}
    \cup {VDict(<<W_ans>>, <<VList(<<a, f>>)>>) : a \in ShortAnswers, f \in Followers}
    \cup {VDict(<<W_ans>>, <<VList(<<f, a>>)>>) :
            a \in {Answer(VInt(0), VInt(0), VList(<<DetEntry(VStr(L_GAMBLING))>>)),
                   Answer(VInt(0), VInt(0), VList(<<VInt(5), DetEntry(VStr(L_TOBACCO_USE))>>))},
            f \in Followers}

\* ensure_stage2_backfill(arg[2], arg[3]) of the module arg[1]
Backfill ==
  Returns("ensure_stage2_backfill", ensure_stage2_backfill(arg[1], arg[2], arg[3]))

InitBackfill ==
  CallOf("ensure_stage2_backfill", {"pipeline", "stage1_2"} \X Batches \X Parsed2s)

NextBackfill == Backfill

SpecBackfill == InitBackfill /\ [][NextBackfill]_vars

\* ------------------------------------------------------------------ calls of _normalize

\* the most entries of an index list handed to _normalize
MaxEntries == 2

\* the entries of an index list as a decoder delivers them: integers, floats,
\* texts of digits with and without white space, U+00B2, other texts, true, null
IndexEntries ==
  { VInt(1), VInt(2), VFloat(2, 0), VFloat(15, -1), VStr(<<"2">>), VStr(<<" ", "1", " ">>),
    VStr(<<"x">>), VStr(<<>>), VStr(<<"SUP2">>), VBool(TRUE), VNull }

\* the objects that hold an index list, under non_neutral and its two aliases
IndexObjects ==
  {VDict(<<key>>, <<VList(xs)>>) :
     key \in {W_non_neutral, W_nn, W_scene_indices}, xs \in SeqsUpTo(IndexEntries, MaxEntries)}

\* _normalize(arg): the value it returns, or the exception of line 208
Normalize ==
  Returns("_normalize",
          IF Call("NormalizeRaises", arg) THEN [raised |-> TRUE, v |-> VNull]
          ELSE [raised |-> FALSE, v |-> Call("_normalize", arg)])

InitNormalize == CallOf("_normalize", IndexObjects)

NextNormalize == Normalize

SpecNormalize == InitNormalize /\ [][NextNormalize]_vars

\* ------------------------------------------------------------------ Stage 0 of main

\* the most scenes of a script, the largest --stage0-batch-size and --retries,
\* and the most entries of a non_neutral list
MaxScenes == 3
MaxBatch == 2
MaxRetries == 2
MaxPicks == 2

\* line 650: the scene_index of the scenes of scenes[b:b+size], n scenes in all
\* (line 622 numbers the scenes from 0)
BatchIndices(b, size, n) == {i \in 0..(n - 1) : i >= b /\ i < b + size}

\* line 667: the entries of parsed0["non_neutral"] that are ints, as ints
IntEntries(xs) ==
  Concat([i \in 1..Len(xs) |-> IF IsInt(xs[i]) THEN <<xs[i].n>> ELSE <<>>])

\* lines 665-667: nn_list
NnList(parsed0) ==
  IF IsDict(parsed0) /\ IsList(Get(parsed0, W_non_neutral))
    THEN IntEntries(Get(parsed0, W_non_neutral).l)
    ELSE <<>>

\* a selection without the fail-safe
SelectedFromListOnly(nn_list, batch) == {nn_list[i] : i \in 1..Len(nn_list)}

\* lines 668-672: what the batch adds to nn_set
Selected(nn_list, batch) ==
  IF nn_list # <<>> THEN {nn_list[i] : i \in 1..Len(nn_list)} ELSE batch

\* what parse_llm_response hands back for the output of the model
Parsed0s ==
  {VDict(<<W_non_neutral>>, <<VList(xs)>>) :
     xs \in SeqsUpTo({VInt(0), VInt(1), VInt(MaxScenes + 2), VBool(TRUE)}, MaxPicks)}
    \cup {VDict(<<>>, <<>>), VDict(<<W_non_neutral>>, <<VStr(<<"1">>)>>),
          VDict(<<W_scene_results>>, <<VList(<<>>)>>)}

\* the locals of Stage 0 before the batch that starts at scene b
Stage0Frame(b, nn_set, last) ==
  [b |-> b, att |-> 0, calls |-> 0, parsed0 |-> VNull, nn_set |-> nn_set, last |-> last]

\* no batch is over
NoBatch == [b |-> -1, calls |-> 0, parsed0 |-> VNull]

\* lines 655-660, one pass that ends in the except clause: create_completion
\* or parse_llm_response raises
AttemptFails ==
  /\ fn = "main"
  /\ fpc = "attempt"
  /\ res.att < arg.retries
  /\ res' = [res EXCEPT !.att = @ + 1, !.calls = @ + 1]
  /\ UNCHANGED <<fn, arg, fpc, parse_vars>>

\* lines 655-660, one pass that reaches the break
AttemptParses ==
  /\ fn = "main"
  /\ fpc = "attempt"
  /\ res.att < arg.retries
  /\ \E v \in Parsed0s : res' = [res EXCEPT !.calls = @ + 1, !.parsed0 = v]
  /\ fpc' = "select"
  /\ UNCHANGED <<fn, arg, parse_vars>>

\* line 655: the range is used up
RetriesUsedUp ==
  /\ fn = "main"
  /\ fpc = "attempt"
  /\ res.att >= arg.retries
  /\ fpc' = "select"
  /\ UNCHANGED <<fn, arg, res, parse_vars>>

\* lines 664-673 and the step of the loop of line 649
SelectBatch ==
  /\ fn = "main"
  /\ fpc = "select"
  /\ LET batch == BatchIndices(res.b, arg.stage0_batch_size, arg.scenes)
          nn_set == res.nn_set \cup Selected(NnList(res.parsed0), batch)
          last == [b |-> res.b, calls |-> res.calls, parsed0 |-> res.parsed0]
     IN /\ res' = Stage0Frame(res.b + arg.stage0_batch_size, nn_set, last)
        /\ fpc' = IF res.b + arg.stage0_batch_size < arg.scenes THEN "attempt" ELSE "done"
  /\ UNCHANGED <<fn, arg, parse_vars>>

Stage0Args ==
  [scenes : 1..MaxScenes, stage0_batch_size : 1..MaxBatch, retries : 0..MaxRetries]

InitStage0 ==
  /\ fn = "main"
  /\ arg \in Stage0Args
  /\ res = Stage0Frame(0, {}, NoBatch)
  /\ fpc = "attempt"
  /\ NoParse

NextStage0 == AttemptFails \/ AttemptParses \/ RetriesUsedUp \/ SelectBatch

SpecStage0 == InitStage0 /\ [][NextStage0]_vars

\* the call is over
Done == pc \in {"returned", "raised"}

\* two outcomes are the same result: the same value returned, or the same error
SameResult(a, b) == a.kind = b.kind /\ a.v = b.v

\* the steps above make the call that parse_llm_response is
StepsAreTheCall ==
  Done => SameResult(outcome, Call("parse_llm_response", <<input.raw, prefer, has_demjson>>))

\* ------------------------------------------------------------------ properties of a call

\* the call returned an object
ReturnedObject == Done /\ outcome.kind = "return"

\* C1: a call with prefer = k either returns an object that contains the key k
\* or raises the unrecoverable error
ReturnsRequestedContainer ==
  (Done /\ prefer # <<>>)
    => \/ ReturnedObject /\ IsDict(outcome.v) /\ HasKey(outcome.v, prefer)
       \/ outcome = Unrecoverable

\* the strict decode of a text, normalized, as the outcome of a call
StrictDecodeNormalized(t) ==
  Returned(Call("_normalize", Call("json.loads", t).v), "select")

\* C2: for a well-formed text of a canonical shape the call returns the strict
\* decode of the text followed by the schema normalization, nothing altered
CleanRoundTrip ==
  (Done /\ input.kind = "clean" /\ Call("json.loads", input.raw).ok)
    => SameResult(outcome, StrictDecodeNormalized(input.raw))

\* the records of the ans array of a well-formed text
AnsRecords(t) == Get(Call("json.loads", t).v, W_ans).l

\* C3: for two complete objects with the key ans, one after the other, the call
\* returns one object whose ans array holds the records of the first followed
\* by the records of the second
ConcatKeepsBothFragments ==
  (Done /\ input.kind = "concat")
    => /\ outcome.kind = "return"
       /\ Get(outcome.v, W_ans) = VList(AnsRecords(input.ref[1]) \o AnsRecords(input.ref[2]))

\* C4: for a free-text field whose value holds an embedded unescaped quote the
\* call returns an object whose field is the original text, the quote kept
EmbeddedQuoteKept ==
  (Done /\ input.kind = "quote")
    => /\ outcome.kind = "return"
       /\ Get(outcome.v, input.ref[1]) = VStr(input.ref[2])

\* C5: for a well-formed text cut short of its last N closers the call returns
\* what it returns for the whole text
TruncationRecovered ==
  (Done /\ input.kind = "cut")
    => SameResult(outcome, Call("parse_llm_response", <<input.ref[1], prefer, has_demjson>>))

\* C6: for a well-formed text with one trailing comma before a closer the call
\* returns what it returns for the text without the comma
TrailingCommaRemoved ==
  (Done /\ input.kind = "comma")
    => SameResult(outcome, Call("parse_llm_response", <<input.ref[1], prefer, has_demjson>>))

\* the text holds no '{' and no '['
NoBracket(t) == \A i \in 1..Len(t) : t[i] \notin {"{", "["}

\* the text holds a bracketed flat array of integers: '[' and ']' with digits,
\* commas and white space only between them, one digit at least
HasBracketedInts(t) ==
  \E i, j \in 1..Len(t) :
    /\ i < j
    /\ t[i] = "["
    /\ t[j] = "]"
    /\ \A p \in (i + 1)..(j - 1) : IsDigit(t[p]) \/ IsSpace(t[p]) \/ t[p] = ","
    /\ \E p \in (i + 1)..(j - 1) : IsDigit(t[p])

\* C7: for a raw text with no '{' and no '[' the call raises the unrecoverable
\* error; Pattern B gives a result only when the text holds a bracketed flat
\* array of integers
ProseIsUnrecoverable ==
  /\ (Done /\ NoBracket(input.raw)) => outcome = Unrecoverable
  /\ outcome.by = "pattern_b" => HasBracketedInts(stripped)

\* C7, its case: prose that names indices without brackets was refused
ProseRefused ==
  /\ Done
  /\ input.raw = ProseIndices
  /\ NoBracket(input.raw)
  /\ outcome = Unrecoverable

\* no two entries of the list are equal
NoDuplicates(xs) == \A i, j \in 1..Len(xs) : i # j => ~PyEq(xs[i], xs[j])

\* the first position of n in arr
FirstAt(arr, n) == MinOf({p \in 1..Len(arr) : arr[p] = n})

\* xs holds the integers of arr, each once, in the order of their first
\* occurrence in arr
IsFirstSeenOf(xs, arr) ==
  /\ \A i \in 1..Len(xs) : xs[i].t = "int" /\ \E p \in 1..Len(arr) : arr[p] = xs[i].n
  /\ \A p \in 1..Len(arr) : \E i \in 1..Len(xs) : xs[i].n = arr[p]
  /\ \A i, j \in 1..Len(xs) : i < j => FirstAt(arr, xs[i].n) < FirstAt(arr, xs[j].n)

\* C8: a returned non_neutral list holds no duplicate, and for an index set
\* given in any of its forms it holds the indices in the order of their first
\* occurrence in the input
IndexSetDeduped ==
  (ReturnedObject /\ IsList(Get(outcome.v, W_non_neutral)))
    => /\ NoDuplicates(Get(outcome.v, W_non_neutral).l)
       /\ input.kind = "index"
            => \A arr \in IntArrays :
                 input.raw = IndexText(input.shape, arr)
                   => IsFirstSeenOf(Get(outcome.v, W_non_neutral).l, arr)

\* C8, its case: the alias nn with the indices 2, 1, 2 came back as 2, 1
AliasDeduped ==
  /\ ReturnedObject
  /\ input.kind = "index"
  /\ input.raw = IndexText("nn", <<2, 1, 2>>)
  /\ Get(outcome.v, W_non_neutral) = VList(<<VInt(2), VInt(1)>>)

\* the object v is the decoded candidate of the maximum score, the first
\* extracted among those of that score
IsBestFirst(v) ==
  \E i \in 1..Len(parsed_list) :
    /\ v = parsed_list[i].obj
    /\ \A j \in 1..Len(parsed_list) : parsed_list[j].score <= parsed_list[i].score
    /\ \A j \in 1..(i - 1) : parsed_list[j].score < parsed_list[i].score

\* a preferred key is given and a decoded candidate holds it
PreferredDecoded ==
  prefer # <<>> /\ \E j \in 1..Len(parsed_list) : HasKey(parsed_list[j].obj, prefer)

\* C9: when a candidate decoded, the call returns the decoded candidate of the
\* maximum score, the first extracted among those of that score; and when a
\* preferred key is given and a decoded candidate holds it, the returned
\* object holds it
SelectsBestCandidate ==
  (Done /\ parsed_list # <<>>)
    => /\ outcome.kind = "return"
       /\ IsBestFirst(outcome.v)
       /\ PreferredDecoded => HasKey(outcome.v, prefer)

\* the selection of lines 368-376, whenever the call reaches it, returns what
\* C9 says: the first candidate of the maximum score, with the preferred key
\* when a decoded candidate holds it
SelectionPicksBest ==
  outcome.by = "select"
    => /\ IsBestFirst(outcome.v)
       /\ PreferredDecoded => HasKey(outcome.v, prefer)

\* two different candidates of the same score were decoded, and one returned
TieSelected ==
  /\ outcome.by = "select"
  /\ Len(parsed_list) >= 2
  /\ parsed_list[1].score = parsed_list[2].score
  /\ parsed_list[1].obj # parsed_list[2].obj

\* C10: if one candidate of the blob decoded, the call returns a value whatever
\* the other candidates hold
DecodedCandidateSuffices ==
  (Done /\ parsed_list # <<>>) => outcome.kind = "return"

\* ------------------------------------------------------------------ the work of a call

\* an upper bound of the steps the call has left: the candidates are at most
\* one for each character of the text and one for the final fragment, and each
\* takes at most MaxRounds rounds
StepsLeft ==
  CASE pc = "start" -> (Len(input.raw) + 1) * (MaxRounds + 2) + 4
    [] pc = "candidate" -> (Len(candidates) - idx + 1) * (MaxRounds + 2) + 3
    [] pc = "round" -> (Len(candidates) - idx) * (MaxRounds + 2) + (MaxRounds - round) + 4
    [] pc = "pattern_a" -> 2
    [] pc \in {"pattern_b", "select"} -> 1
    [] OTHER -> 0

\* every step of the call takes it nearer to its end, and no candidate is
\* given more than MaxRounds rounds
CallTerminates ==
  /\ [](round <= MaxRounds /\ StepsLeft >= 0)
  /\ [][StepsLeft' < StepsLeft]_vars

\* a round of repairs has run and its text did not decode
RoundFailed == pc = "round" /\ pc' = "round" /\ round' = round + 1

\* another round of repairs is due for the candidate
RoundDue == pc = "round" /\ round < MaxRounds

\* a round that decodes ends the rounds of its candidate
DecodeEndsRounds == [][(pc = "round" /\ parsed_list' # parsed_list) => pc' = "candidate"]_vars

\* C11: the call terminates; each candidate is given at most MaxRounds rounds
\* of repairs, and its rounds end as soon as a round decodes or a round leaves
\* the text as it was
RoundsEndEarly ==
  /\ CallTerminates
  /\ DecodeEndsRounds
  /\ [][(RoundFailed /\ repaired' = repaired) => ~RoundDue']_vars

\* ------------------------------------------------------------------ the debug sink and the result

\* the call was given a debug directory
HasSink == debug_dir # <<>>

\* C12: a call given a debug directory, whether its writes succeed or all
\* fail, ends as the call without one does: the same value returned or the same
\* error raised, and no exception of a failed write leaves _maybe_dump
SinkDoesNotInterfere ==
  /\ outcome.kind # "dump_error"
  /\ (Done /\ HasSink) =>
       SameResult(outcome, Call("parse_llm_response", <<input.raw, prefer, has_demjson>>))

\* a call all of whose writes failed returned an object
ReturnedDespiteFailedWrites ==
  ReturnedObject /\ HasSink /\ disk = "failing" /\ files = {}

\* a call wrote its files and returned an object
ReturnedAfterWrites ==
  ReturnedObject /\ HasSink /\ disk = "writable"
    /\ \E f \in files : f.name = FileName("chosen.json", 0) /\ f.content.obj = outcome.v

\* ------------------------------------------------------------------ concurrent calls

\* the call of the frame f is over
FrameDone(f) == f.pc \in {"returned", "raised"}

\* what the call of the frame f returns or raises when it runs alone
Alone(f) == Call("parse_llm_response", <<f.input.raw, f.prefer, has_demjson>>)

\* the file fname of the debug directory holds the content c
FileHolds(fname, c) == \E f \in files : f.name = FileName(fname, 0) /\ f.content = c

\* C13: under every interleaving of the steps of two calls that share a debug
\* directory, each call ends as it ends when it runs alone
CallsAreIndependent ==
  \A f \in {Frame, waiting} : FrameDone(f) => SameResult(f.outcome, Alone(f))

\* two calls with different results are both over, and one of them ran from
\* its first write to its last between the first and the last write of the other
CallRanInsideTheOther ==
  /\ Done /\ FrameDone(waiting)
  /\ outcome.kind = "return" /\ waiting.outcome.kind = "return"
  /\ outcome.v # waiting.outcome.v
  /\ FileHolds("raw.txt", TextContent(waiting.input.raw))
  /\ FileHolds("chosen.json", JsonContent(outcome.v))

\* ------------------------------------------------------------------ candidate regions

\* the nesting of the text t after its first p characters: in_str and esc tell
\* whether the next character lies in a string literal and is escaped, stack
\* holds the openers not yet matched (the most recent last), and bad tells
\* that a closer outside the string literals did not match the most recent
\* unmatched opener
RECURSIVE Nesting(_, _)
Nesting(t, p) ==
  IF p = 0 THEN [in_str |-> FALSE, esc |-> FALSE, stack |-> <<>>, bad |-> FALSE]
  ELSE LET n == Nesting(t, p - 1)
           ch == t[p]
       IN IF n.in_str
            THEN IF n.esc THEN [n EXCEPT !.esc = FALSE]
                 ELSE IF ch = BS THEN [n EXCEPT !.esc = TRUE]
                 ELSE IF ch = Q THEN [n EXCEPT !.in_str = FALSE]
                 ELSE n
          ELSE IF ch = Q THEN [n EXCEPT !.in_str = TRUE]
          ELSE IF ch \in {"{", "["} THEN [n EXCEPT !.stack = Append(@, ch)]
          ELSE IF ch \in {"}", "]"}
            THEN IF n.stack # <<>> /\ Closer(n.stack[Len(n.stack)]) = ch
                   THEN [n EXCEPT !.stack = SubSeq(@, 1, Len(@) - 1)]
                   ELSE [n EXCEPT !.bad = TRUE]
          ELSE n

\* every closer of t matches the most recent unmatched opener, and no opener
\* is left unmatched
Balanced(t) == ~Nesting(t, Len(t)).bad /\ Nesting(t, Len(t)).stack = <<>>

\* the text of the region r of the call
RegionText(r) == Slice(arg, r.lo, r.hi)

\* the regions returned by the call
Regions == {res[r] : r \in 1..Len(res)}

OpenBeforeEnd(t) ==
  \A p \in 1..(Len(t) - 1) : ~Nesting(t, p).bad /\ Nesting(t, p).stack # <<>>

\* the region r runs to the end of the text with an opener unmatched
IsTail(r) ==
  /\ r.hi = Len(arg)
  /\ ~Nesting(RegionText(r), r.hi - r.lo + 1).bad
  /\ Nesting(RegionText(r), r.hi - r.lo + 1).stack # <<>>

\* the region r ends at a closer that does not match the most recent unmatched
\* opener
EndsAtMismatch(r) == Nesting(RegionText(r), r.hi - r.lo + 1).bad

RegionsInOrder ==
  Called("_find_regions") =>
    /\ \A r \in Regions : r.lo <= r.hi /\ arg[r.lo] \in {"{", "["}
    /\ \A k \in 1..(Len(res) - 1) : res[k].hi < res[k + 1].lo
    /\ \A p \in 1..Len(arg) :
         arg[p] \in {"{", "["} => \E r \in Regions : r.lo <= p /\ p <= r.hi
    /\ \A k \in 1..Len(res) :
         \A p \in (IF k = 1 THEN 1 ELSE res[k - 1].hi + 1)..(res[k].lo - 1) :
           arg[p] \notin {"{", "["}

\* a region with an opener inside it is followed by a second region
NestedThenNext ==
  /\ Called("_find_regions")
  /\ Len(res) = 2
  /\ \E p \in (res[1].lo + 1)..res[1].hi : arg[p] \in {"{", "["}

\* ------------------------------------------------------------------ quoted keys

\* the text out read as the text s with quotes put in: the positions of s
\* before which a quote was put, and whether out is s but for these quotes;
\* i and o are the positions reached in s and in out
RECURSIVE PutIn(_, _, _, _, _)
PutIn(s, out, i, o, at) ==
  IF o > Len(out) THEN [ok |-> i > Len(s), at |-> at]
  ELSE IF i <= Len(s) /\ out[o] = s[i] THEN PutIn(s, out, i + 1, o + 1, at)
  ELSE IF out[o] = Q /\ i \notin at THEN PutIn(s, out, i, o + 1, at \cup {i})
  ELSE [ok |-> FALSE, at |-> at]

\* the quotes that the call put into its argument
QuotesPut == PutIn(arg, res, 1, 1, {})

\* the positions of the first characters of the tokens the call wrapped, and
\* the position after the last character of the token that starts at p
WrappedAt == {p \in QuotesPut.at : Cardinality({q \in QuotesPut.at : q < p}) % 2 = 0}
WrappedEnd(p) == MinOf({q \in QuotesPut.at : q > p})

\* the token s[p..e-1] is a bare identifier outside the string literals of s
BareIdentifier(s, p, e) ==
  /\ p < e
  /\ \A q \in p..(e - 1) : s[q] \in KeyChars /\ ~Nesting(s, q - 1).in_str

\* the first character after the token that is no whitespace is a colon
ColonFollows(s, e) == SkipWs(s, e) <= Len(s) /\ s[SkipWs(s, e)] = ":"

\* the positions of s before p that hold no whitespace
InkBefore(s, p) == {q \in 1..(p - 1) : ~IsSpace(s[q])}

\* the nearest character of s before p that is no whitespace is '{' or ',',
\* or there is none
AtKeyPosition(s, p) ==
  InkBefore(s, p) = {} \/ s[CHOOSE q \in InkBefore(s, p) : \A x \in InkBefore(s, p) : x <= q] \in {"{", ","}

\* C20: the call changes its argument only by wrapping tokens in quotes, and
\* each token it wraps is a bare identifier outside every string literal,
\* followed after optional whitespace by ':', whose nearest preceding
\* character that is no whitespace is '{' or ',' (or there is none)
KeysQuotedAtKeyPositions ==
  Called("_quote_unquoted_object_keys_safe") =>
    /\ QuotesPut.ok
    /\ Cardinality(QuotesPut.at) % 2 = 0
    /\ \A p \in WrappedAt :
         /\ BareIdentifier(arg, p, WrappedEnd(p))
         /\ ColonFollows(arg, WrappedEnd(p))
         /\ AtKeyPosition(arg, p)

\* the positions of s before p that hold no whitespace and lie outside the
\* string literals of s, their quotes included
InkOutsideStrings(s, p) ==
  {q \in InkBefore(s, p) : ~Nesting(s, q).in_str /\ ~Nesting(s, q - 1).in_str}

\* what the call does keep to: the tokens it wraps are bare identifiers
\* outside the string literals, followed by ':', and the nearest character
\* before them that is no whitespace and belongs to no string literal is '{'
\* or ',' (or there is none)
KeysQuotedPastStrings ==
  Called("_quote_unquoted_object_keys_safe") =>
    /\ QuotesPut.ok
    /\ Cardinality(QuotesPut.at) % 2 = 0
    /\ \A p \in WrappedAt :
         /\ BareIdentifier(arg, p, WrappedEnd(p))
         /\ ColonFollows(arg, WrappedEnd(p))
         /\ InkOutsideStrings(arg, p) = {}
              \/ arg[CHOOSE q \in InkOutsideStrings(arg, p) :
                       \A x \in InkOutsideStrings(arg, p) : x <= q] \in {"{", ","}

\* ------------------------------------------------------------------ the final-channel marker

\* the raw text holds the final-channel marker and a region follows it
HasFinalRegion == FinalMarkerSearch(input.raw) > 0 /\ FinalFragment(input.raw) # <<>>

\* the region that follows the marker
FinalRegion == FinalFragment(input.raw)[1]

\* the rounds of repairs of the region that follows the marker
FinalRegionRounds == Call("RoundsFrom", <<Call("_base_clean", FinalRegion), 0, has_demjson>>)

\* no decoded candidate has a higher score than the object v
NoneScoresHigher(v) ==
  \A k \in 1..Len(parsed_list) : parsed_list[k].score <= Call("_score", <<v, prefer>>)

\* the candidates of the call have been extracted
Extracted == pc \notin {"start", "none"} /\ outcome.kind # "dump_error"

\* C19: the region that follows the final-channel marker is the first
\* candidate, and when it decodes and no decoded candidate has a higher score
\* the call returns its decoded value
FinalRegionHasPriority ==
  (Extracted /\ HasFinalRegion) =>
    /\ candidates # <<>> /\ candidates[1] = FinalRegion
    /\ (Done /\ FinalRegionRounds.ok /\ NoneScoresHigher(FinalRegionRounds.obj)) =>
         outcome.kind = "return" /\ outcome.v = FinalRegionRounds.obj

\* what the call does keep to: the same, for the calls that no exception of
\* _normalize leaves
FinalRegionWinsTies ==
  (Extracted /\ HasFinalRegion /\ outcome.kind # "error") =>
    /\ candidates # <<>> /\ candidates[1] = FinalRegion
    /\ (Done /\ FinalRegionRounds.ok /\ NoneScoresHigher(FinalRegionRounds.obj)) =>
         outcome.kind = "return" /\ outcome.v = FinalRegionRounds.obj

\* the region after the marker was returned, although a candidate before the
\* marker decoded to an object of the same score
FinalRegionWonTie ==
  /\ ReturnedObject /\ HasFinalRegion
  /\ Len(parsed_list) > 1
  /\ \E k \in 1..Len(parsed_list) :
       parsed_list[k].score = parsed_list[1].score /\ parsed_list[k].obj # parsed_list[1].obj
  /\ outcome.v = FinalRegionRounds.obj

\* ------------------------------------------------------------------ properties: the rewrite parser

\* the (id, new_text) pairs of one item of a rewrites list, in their order
ChangesOfItem(item) ==
  [k \in 1..Len(Get(item, W_changes).l) |->
     <<Get(Get(item, W_changes).l[k], W_id), Get(Get(item, W_changes).l[k], W_new_text)>>]

\* the (id, new_text) pairs of the scene i in a list of items, in their order
RECURSIVE SceneChanges(_, _)
SceneChanges(items, i) ==
  IF items = <<>> THEN <<>>
  ELSE (IF Get(Head(items), W_scene_index) = VInt(i) THEN ChangesOfItem(Head(items)) ELSE <<>>)
         \o SceneChanges(Tail(items), i)

TriplesOf(v, i) == SceneChanges(Get(v, W_rewrites).l, i)

\* C14: for a well-formed rewrites text the parser returns, and for every scene
\* the (id, new_text) pairs of the result are those of a strict decode of the
\* text, every new_text unchanged, in their original order.
RewritesRoundTrip ==
  Called("parse_llm_response_to_rewrites") =>
    /\ res.kind = "return"
    /\ \A i \in {0, 1} : TriplesOf(res.v, i) = TriplesOf(json_loads(arg[1]).v, i)

\* the round trip of the texts whose sentences hold letters only
PlainRewritesRoundTrip ==
  (Called("parse_llm_response_to_rewrites")
     /\ \A i \in {0, 1} : \A k \in 1..Len(TriplesOf(json_loads(arg[1]).v, i)) :
           TriplesOf(json_loads(arg[1]).v, i)[k][2].s \in {<<"a">>, <<"b">>})
    => /\ res.kind = "return"
       /\ \A i \in {0, 1} : TriplesOf(res.v, i) = TriplesOf(json_loads(arg[1]).v, i)

\* a scene written twice is returned once, with the changes of both items
SceneMergedInOrder ==
  /\ Called("parse_llm_response_to_rewrites")
  /\ res.kind = "return"
  /\ Len(Get(json_loads(arg[1]).v, W_rewrites).l) = 2
  /\ Len(Get(res.v, W_rewrites).l) = 1
  /\ Len(TriplesOf(res.v, 0)) = 4

\* ------------------------------------------------------------------ properties: _apply_rewrites_to_data

\* the scenes of a data object and the sentences of its scene p
ScenesOf(data) == Get(data, W_all_scenes).l
SentencesOf(data, p) == Get(ScenesOf(data)[p], W_sentences).l

\* the id j is listed in replace_sentences_id of the scene p of the data
Listed(data, p, j) == InIds(j, Get(ScenesOf(data)[p], W_replace_sentences_id).l)

\* the rewrites object gives the text t for the scene p (scene_index p - 1)
\* and the id j; scene_index and id are compared as Python compares them
GivenFor(rw, p, j, t) ==
  /\ IsDict(rw)
  /\ IsList(Get(rw, W_rewrites))
  /\ \E a \in 1..Len(Get(rw, W_rewrites).l) :
       LET item == Get(rw, W_rewrites).l[a]
       IN /\ IsDict(item)
          /\ IsInt(Get(item, W_scene_index))
          /\ Get(item, W_scene_index).n = p - 1
          /\ IsList(Get(item, W_changes))
          /\ \E b \in 1..Len(Get(item, W_changes).l) :
               LET ch == Get(item, W_changes).l[b]
               IN IsDict(ch) /\ ~Unhashable(Get(ch, W_id)) /\ PyEq(Get(ch, W_id), j)
                    /\ Get(ch, W_new_text) = t /\ IsStr(t)

\* C15: whatever the rewrites object, after the call the scenes and the
\* sentences are as many as before and in the same order, a sentence whose id is
\* not listed in replace_sentences_id of its scene has its text unchanged, and a
\* sentence whose id is listed has its old text or a new_text given for its
\* scene_index and id.
OnlyListedSentencesChange ==
  Called("_apply_rewrites_to_data") =>
    /\ Len(ScenesOf(res.data)) = Len(ScenesOf(arg[1]))
    /\ \A p \in 1..Len(ScenesOf(arg[1])) :
         /\ Len(SentencesOf(res.data, p)) = Len(SentencesOf(arg[1], p))
         /\ Get(ScenesOf(res.data)[p], W_replace_sentences_id)
              = Get(ScenesOf(arg[1])[p], W_replace_sentences_id)
         /\ \A k \in 1..Len(SentencesOf(arg[1], p)) :
              LET old == SentencesOf(arg[1], p)[k]
                  new == SentencesOf(res.data, p)[k]
              IN /\ Get(new, W_id) = Get(old, W_id)
                 /\ ~Listed(arg[1], p, Get(old, W_id)) => Get(new, W_text) = Get(old, W_text)
                 /\ Get(new, W_text) # Get(old, W_text)
                      => GivenFor(arg[2], p, Get(old, W_id), Get(new, W_text))

\* a call that was given texts for a listed and for an unlisted sentence of the
\* first scene, and changed the listed one only
ListedChangedUnlistedKept ==
  /\ Called("_apply_rewrites_to_data")
  /\ arg[1] = DataOf(<<Scene(<<0, 1>>, <<1>>)>>)
  /\ GivenFor(arg[2], 1, VInt(0), VStr(<<"x">>))
  /\ GivenFor(arg[2], 1, VInt(1), VStr(<<"x">>))
  /\ Get(SentencesOf(res.data, 1)[1], W_text) = VStr(<<"s", "1">>)
  /\ Get(SentencesOf(res.data, 1)[2], W_text) = VStr(<<"x">>)

\* ------------------------------------------------------------------ properties: ensure_stage2_backfill

\* the queries of a batch whose scID and id are integers
IntQueries(q_batch) == SelectSeq(q_batch, LAMBDA q : IsInt(Get(q, W_scID)) /\ IsInt(Get(q, W_id)))

\* the label a query names by the entry v of its vlc
NamedLabel(v) == IF IsDict(v) THEN Get(v, W_label) ELSE v

\* the distinct labels of a query, in first-seen order
QueryLabels(q) ==
  LET all == [i \in 1..Len(Get(q, W_vlc).l) |-> NamedLabel(Get(q, W_vlc).l[i])]
      first == {i \in 1..Len(all) : \A j \in 1..(i - 1) : all[j] # all[i]}
  IN SelectSeq([i \in 1..Len(all) |-> IF i \in first THEN all[i] ELSE VNull],
               LAMBDA lab : lab # VNull)

\* the labels of the records of an entry of the result
DetLabels(entry) == [i \in 1..Len(Get(entry, W_det).l) |-> Get(Get(entry, W_det).l[i], W_label)]

\* the model named the label lab in an answer to the query q
ModelNamed(mod, parsed2, q, lab) ==
  /\ IsDict(parsed2)
  /\ IsList(Get(parsed2, W_ans))
  /\ \E a \in 1..Len(Get(parsed2, W_ans).l) :
       LET ans == Get(parsed2, W_ans).l[a]
       IN /\ IsDict(ans)
          /\ Get(ans, W_scID) = Get(q, W_scID)
          /\ Get(ans, W_id) = Get(q, W_id)
          /\ IsList(Get(ans, W_det))
          /\ \E d \in 1..Len(Get(ans, W_det).l) :
               /\ IsDict(Get(ans, W_det).l[d])
               /\ _norm_label(mod, Get(Get(ans, W_det).l[d], W_label)) = lab

RECURSIVE EscapedAt(_, _)
EscapedAt(w, p) == p > 1 /\ w[p - 1] = BS /\ ~EscapedAt(w, p - 1)

\* the unescaped quotes of w whose next character after white space is one of , } ]
Terminators(w) ==
  {p \in 1..Len(w) : /\ w[p] = Q
                     /\ ~EscapedAt(w, p)
                     /\ \E k \in (p + 1)..Len(w) :
                          /\ w[k] \in {",", "}", "]"}
                          /\ \A m \in (p + 1)..(k - 1) : IsSpace(w[m])}

\* C21: in the value of a field, scanned from its opening quote, the first
\* unescaped quote followed after white space by , } or ] ends the value and is
\* kept; every unescaped quote before it is emitted with a backslash; every
\* other character, escaped ones too, is emitted unchanged and in order.
InnerQuotesEscaped ==
  Called("_sanitize_inner_quotes_in_field") =>
    LET open == OpenField(arg[2])
        w == From(arg[1], Len(open) + 1)
        t == IF Terminators(w) = {} THEN Len(w) + 1 ELSE MinOf(Terminators(w))
        emitted(p) == IF w[p] = Q /\ ~EscapedAt(w, p) /\ p < t THEN <<BS, Q>> ELSE <<w[p]>>
    IN res = open \o Concat([p \in 1..Len(w) |-> emitted(p)])

\* the value "a", of the field reason: the first quote is escaped, the second
\* ends the value
InnerQuoteThenTerminator ==
  /\ Called("_sanitize_inner_quotes_in_field")
  /\ arg = <<OpenField(W_reason) \o <<Q, "a", Q, ",">>, W_reason>>
  /\ res = OpenField(W_reason) \o <<BS, Q, "a", Q, ",">>

\* a coalescer has been called
CalledCoalescer ==
  Called("_coalesce_key_arrays") \/ Called("_coalesce_repeated_key_arrays_to_single_object")

\* the elements of the arrays of a text, decoded, one array after the other
DecodedElems(arrays) ==
  Concat([i \in 1..Len(arrays) |->
            [j \in 1..Len(arrays[i]) |-> Call("json.loads", arrays[i][j]).v]])

\* what the coalescer owes for a text made of the arrays of arg[3]
CoalescedFrom(arrays) ==
  /\ res.ok
  /\ Call("json.loads", res.text).ok
  /\ Call("json.loads", res.text).v = VDict(<<arg[2]>>, <<VList(DecodedElems(arrays))>>)

\* C22: a coalescer returns none exactly when it finds fewer than two closed
\* arrays of the key; otherwise it returns a well-formed object whose one array
\* holds the elements of the arrays it found, in order, each once.
CoalescedIsConcatenation ==
  CalledCoalescer =>
    IF Len(arg[3]) < 2 \/ arg[4] THEN ~res.ok ELSE CoalescedFrom(arg[3])

\* the same for the texts none of whose arrays is empty
NonEmptyArraysCoalesced ==
  (CalledCoalescer /\ \A i \in 1..Len(arg[3]) : arg[3][i] # <<>>) =>
    IF Len(arg[3]) < 2 \/ arg[4] THEN ~res.ok ELSE CoalescedFrom(arg[3])

\* ------------------------------------------------------------------ properties: the order of the steps

\* C23: a round replaces the text of a candidate by a coalesced text only after
\* a decode attempt on the candidate has failed, and never when the repaired
\* text of the round decodes.
CoalescesOnlyAfterFailedDecode ==
  [][(pc = "round" /\ round < MaxRounds /\ repaired' # RepairPasses(repaired))
       => /\ round > 0
          /\ ~Call("_try_parsers", <<RepairPasses(repaired), has_demjson>>).ok]_vars

\* ------------------------------------------------------------------ properties: _normalize

\* the entries that are numeric: an integer, an integral float, and a text of
\* decimal digits inside white space
NumericEntry(x) ==
  \/ IsInt(x)
  \/ x.t = "float" /\ x.e = 0
  \/ IsStr(x) /\ ~IntRaises(Strip(x.s))

\* the integer a numeric entry stands for
NumberOf(x) == IF IsStr(x) THEN DigitsValue(Strip(x.s), 1, Len(Strip(x.s)) + 1, 0) ELSE x.n

\* the index list handed to _normalize
GivenIndexList == arg.l[1].l

\* what the claim requires of the list `out` returned for the list `given`
CoercedFrom(given, out) ==
  /\ \A i \in 1..Len(out) : IsInt(out[i])
  /\ \A j \in 1..Len(given) :
       NumericEntry(given[j]) => \E i \in 1..Len(out) : out[i].n = NumberOf(given[j])
  /\ \A i \in 1..Len(out) :
       \E j \in 1..Len(given) : NumericEntry(given[j]) /\ out[i].n = NumberOf(given[j])

\* C24: _normalize returns for every index list; the list it returns under
\* non_neutral holds integers only, one for every numeric entry (an integer, an
\* integral float, a numeric string), and nothing for the other entries.
NumericEntriesCoerced ==
  Called("_normalize") =>
    /\ ~res.raised
    /\ CoercedFrom(GivenIndexList, Get(res.v, W_non_neutral).l)

\* the same for the lists without an entry that str.isdigit() accepts and int() rejects
DecimalEntriesCoerced ==
  (Called("_normalize") /\ ~CoerceRaises(GivenIndexList)) =>
    /\ ~res.raised
    /\ CoercedFrom(GivenIndexList, Get(res.v, W_non_neutral).l)

\* ------------------------------------------------------------------ properties: the last-resort extractor

\* no candidate of the call decodes in any of its rounds
NoCandidateDecoded ==
  \A i \in 1..Len(candidates) :
    ~Call("RoundsFrom", <<Call("_base_clean", candidates[i]), 0, has_demjson>>).ok

\* the text Pattern A searches (line 290)
PatternAText ==
  Call("_replace_type_placeholders", Call("_fix_comma_issues",
    Call("_remove_strays", Call("_sanitize_text_fields", Call("_base_clean", stripped)))))

\* the matches of _STAGE2_ENTRY_RE in the text t from position i on, in the
\* order of the text, as (scID, id) pairs
RECURSIVE MatchedPairs(_, _)
MatchedPairs(t, i) ==
  LET at == {j \in i..Len(t) : Stage2Entry(t, j).ok}
      m == Stage2Entry(t, MinOf(at))
  IN IF at = {} THEN <<>>
     ELSE <<<<DigitsValue(m.scid, 1, Len(m.scid) + 1, 0), DigitsValue(m.sid, 1, Len(m.sid) + 1, 0)>>>>
            \o MatchedPairs(t, m.j)

\* the (scID, id) pairs of the records of a returned ans list
ReturnedPairs(v) ==
  [i \in 1..Len(Get(v, W_ans).l) |->
     <<Get(Get(v, W_ans).l[i], W_scID).n, Get(Get(v, W_ans).l[i], W_id).n>>]

\* Pattern A and Pattern B return nothing for the text of the call
PatternAFails == ~Call("_fallback_extract_stage2_ans", <<stripped, has_demjson>>).ok
PatternBFails == ~Call("_fallback_extract_stage0_non_neutral", stripped).ok

\* the extractor is at work, or the call ended in it
InExtractor ==
  \/ pc \in {"pattern_a", "pattern_b"}
  \/ outcome.by \in {"pattern_a", "pattern_b"}
  \/ outcome = Unrecoverable

\* the extractor runs only when no candidate decoded, Pattern B only when
\* Pattern A returned nothing, and the records of Pattern A keep the order of
\* their matches
ExtractorInOrder ==
  /\ InExtractor => parsed_list = <<>> /\ NoCandidateDecoded
  /\ (pc = "pattern_b" \/ outcome.by = "pattern_b" \/ outcome = Unrecoverable) => PatternAFails
  /\ outcome.by = "pattern_a" => ReturnedPairs(outcome.v) = MatchedPairs(PatternAText, 1)

\* C25: the last-resort extractor runs only when no candidate of the call
\* decoded; Pattern B is tried only when Pattern A returned nothing; the call
\* raises only after both patterns returned nothing; the records of Pattern A
\* stand in the result in the order of their matches in the text.
LastResortIsLast ==
  /\ ExtractorInOrder
  /\ pc = "raised" => parsed_list = <<>> /\ NoCandidateDecoded /\ PatternAFails /\ PatternBFails

\* the same, where the error the call raises is the one of line 366
LastResortRaisesLast ==
  /\ ExtractorInOrder
  /\ outcome = Unrecoverable => PatternBFails

\* ------------------------------------------------------------------ properties: what a repair round keeps

\* C26: a repair round keeps the key/value pairs of the candidate: a text that
\* decodes before the round decodes after it, to the same keys with the same
\* values in the same order.
RoundKeepsPairs ==
  [][(pc = "round" /\ round < MaxRounds /\ Call("json.loads", repaired).ok)
       => /\ Call("json.loads", repaired').ok
          /\ Call("json.loads", repaired').v = Call("json.loads", repaired).v]_vars

\* C27: _base_clean is idempotent: cleaning a cleaned text changes nothing.
BaseCleanIdempotent ==
  Called("_base_clean") => Call("_base_clean", res) = res

\* the result of _autoclose is its argument followed by closers only
ClosersAppended ==
  /\ Len(res) >= Len(arg)
  /\ SubSeq(res, 1, Len(arg)) = arg
  /\ \A i \in (Len(arg) + 1)..Len(res) : res[i] \in {"}", "]"}

\* C28: _autoclose(s) is s followed by closers only, and closing the result
\* again appends nothing: _autoclose(_autoclose(s)) = _autoclose(s).
AutocloseIdempotent ==
  Called("_autoclose") => ClosersAppended /\ Call("_autoclose", res) = res

\* the text ends inside a string literal
EndsInString(s) ==
  AutocloseScan(s, [stack |-> <<>>, in_str |-> FALSE, esc |-> FALSE], 1, Len(s)).in_str

\* the same for the texts that do not end inside a string literal
AutocloseIdempotentOutsideStrings ==
  (Called("_autoclose") /\ ~EndsInString(arg)) => ClosersAppended /\ Call("_autoclose", res) = res

\* ------------------------------------------------------------------ properties: the shape of the result

\* C29: whatever parse_llm_response returns is a keyed object; no call returns
\* a bare list or a scalar.
ReturnsKeyedObject ==
  (Done /\ outcome.kind = "return") => IsDict(outcome.v)

\* a text that decodes to a bare array of scene records is returned as an
\* object that holds the array under scene_results
BareArrayWrapped ==
  /\ Done
  /\ outcome.kind = "return"
  /\ input.raw = BlobScenes
  /\ IsList(Call("json.loads", input.raw).v)
  /\ outcome.v = VDict(<<W_scene_results>>, <<Call("json.loads", input.raw).v>>)

\* ------------------------------------------------------------------ properties: Stage 0

\* a batch of Stage 0 is over
BatchOver == fn = "main" /\ res.last # NoBatch

\* the scenes of the batch that is over
LastBatch == BatchIndices(res.last.b, arg.stage0_batch_size, arg.scenes)

\* C30: a batch makes at most `retries` model calls and none after the call
\* whose output parsed; a batch that ends with no parsed output has made
\* `retries` calls; and when no output parsed, or the parsed result has no
\* integer entry under non_neutral, every scene of the batch is selected.
Stage0FailSafe ==
  /\ fn = "main" =>
       /\ res.calls <= arg.retries
       /\ fpc = "attempt" => res.parsed0 = VNull
       /\ (fpc = "select" /\ res.parsed0 = VNull) => res.calls = arg.retries
  /\ BatchOver =>
       /\ res.last.calls <= arg.retries
       /\ res.last.parsed0 = VNull => res.last.calls = arg.retries
       /\ NnList(res.last.parsed0) = <<>> => LastBatch \subseteq res.nn_set

\* a batch of two scenes whose only parsed output, on the second call, names
\* no scene: both scenes are selected
EmptyAnswerSelectsBatch ==
  /\ BatchOver
  /\ res.last.calls = 2
  /\ res.last.parsed0 = VDict(<<W_non_neutral>>, <<VList(<<>>)>>)
  /\ Cardinality(LastBatch) = 2
  /\ LastBatch \subseteq res.nn_set

====
